---------------------------- MODULE Spec2Model ----------------------------
(***************************************************************************)
(* A model of the semver package: parsing, formatting, comparison and the  *)
(* copy-producing update operations of Version (version.go), and the       *)
(* parsing and evaluation of constraints (constraint.go).                  *)
(*                                                                         *)
(* Representation.                                                         *)
(*   - A Go string is a sequence of one-character strings, so that         *)
(*     strings.Index, strings.Split, strings.TrimPrefix and the byte-wise  *)
(*     string comparison are computed as the library computes them.        *)
(*   - A uint64 is a sequence of four 16-bit limbs, least significant      *)
(*     first (TLC's integers are 32 bits wide); strconv.ParseUint and      *)
(*     strconv.FormatUint convert between digit strings and limbs, and     *)
(*     the increment wraps modulo 2^64.                                    *)
(*   - An error value is the name of the package's error variable, "nil"   *)
(*     when there is none.                                                 *)
(***************************************************************************)
EXTENDS Integers, Sequences, FiniteSets, TLC

VARIABLES
    text,      \* parsing machine: the text given to the parsers
    lenient,   \* parsing machine: what NewVersion(text) returned
    strictIn,  \* parsing machine: the text given to StrictNewVersion
    strict,    \* parsing machine: what StrictNewVersion(strictIn) returned
    va, vb, vc,\* ordering machine: three parsed versions
    cmp,       \* ordering machine: the results of Compare between them
    heap,      \* update machine: the backing arrays of the parts slices
    recv,      \* update machine: the version the calls are made on
    recv0,     \* update machine: the fields of recv right after parsing
    ret,       \* update machine: the version returned by the last call
    call,      \* update machine: the last call, its argument and its error
    ctext,     \* constraint machine: the text given to NewConstraint
    ctext2,    \* constraint machine: a second text, compared with the first
    cand,      \* constraint machine: the version that is checked
    cons,      \* constraint machine: what NewConstraint(ctext) returned
    cons2,     \* constraint machine: what NewConstraint(ctext2) returned
    checked,   \* constraint machine: what cons.Check(cand) returned
    checked2,  \* constraint machine: what cons2.Check(cand) returned
    validated  \* constraint machine: what cons.Validate(cand) returned

\* The variables of the version machines and those of the constraint machine.
vvars == <<text, lenient, strictIn, strict, va, vb, vc, cmp,
           heap, recv, recv0, ret, call>>
cvars == <<ctext, ctext2, cand, cons, cons2, checked, checked2, validated>>

vars == <<vvars, cvars>>

-----------------------------------------------------------------------------
(* Characters and strings *)

digits == <<"0", "1", "2", "3", "4", "5", "6", "7", "8", "9">>
lower == <<"a", "b", "c", "d", "e", "f", "g", "h", "i", "j", "k", "l", "m",
           "n", "o", "p", "q", "r", "s", "t", "u", "v", "w", "x", "y", "z">>
upper == <<"A", "B", "C", "D", "E", "F", "G", "H", "I", "J", "K", "L", "M",
           "N", "O", "P", "Q", "R", "S", "T", "U", "V", "W", "X", "Y", "Z">>

Range(s) == {s[i] : i \in 1..Len(s)}

IndexIn(s, c) == CHOOSE i \in 1..Len(s) : s[i] = c

\* const num string = "0123456789"
num == Range(digits)

\* const allowed string = letters, "-" and num
allowed == Range(lower) \cup Range(upper) \cup {"-"} \cup num

\* The byte of a character (ASCII), for Go's s > o on strings.
Byte(c) ==
    CASE c \in num          -> 47 + IndexIn(digits, c)
      [] c \in Range(upper) -> 64 + IndexIn(upper, c)
      [] c \in Range(lower) -> 96 + IndexIn(lower, c)
      [] c = "+"            -> 43
      [] c = "-"            -> 45
      [] c = "."            -> 46
      [] c = "_"            -> 95

\* Go's s < o on strings: byte-wise lexicographic order.
RECURSIVE StrLess(_, _)
StrLess(s, o) ==
    IF o = <<>> THEN FALSE
    ELSE IF s = <<>> THEN TRUE
    ELSE IF s[1] # o[1] THEN Byte(s[1]) < Byte(o[1])
    ELSE StrLess(Tail(s), Tail(o))

\* strings.Index(s, c) for a one-byte c, counted from 1; 0 when c is absent
\* (Go counts from 0 and returns -1).
Index(s, c) ==
    IF \E i \in 1..Len(s) : s[i] = c
    THEN CHOOSE i \in 1..Len(s) : s[i] = c /\ \A j \in 1..(i - 1) : s[j] # c
    ELSE 0

\* strings.Split(s, sep) for a one-byte sep: never empty, Split("") = [""].
RECURSIVE Split(_, _)
Split(s, sep) ==
    LET i == Index(s, sep)
    IN  IF i = 0 THEN <<s>>
        ELSE <<SubSeq(s, 1, i - 1)>> \o Split(SubSeq(s, i + 1, Len(s)), sep)

HasPrefix(s, c) == s # <<>> /\ s[1] = c

\* strings.TrimPrefix(s, c) for a one-byte c: removes one occurrence.
TrimPrefix(s, c) == IF HasPrefix(s, c) THEN Tail(s) ELSE s

\* containsOnly(s, comp): no character of s is outside comp.
containsOnly(s, comp) == \A i \in 1..Len(s) : s[i] \in comp

-----------------------------------------------------------------------------
(* uint64 *)

\* The bit size given to strconv.ParseUint.
BitSize == 64

LimbBase == 2 ^ 16
NumLimbs == BitSize \div 16

U64Zero == [i \in 1..NumLimbs |-> 0]
U64Max == [i \in 1..NumLimbs |-> LimbBase - 1]

\* n * m + d on limbs: the carry into limb i, and the result with the
\* carry out of the last limb (an overflow of 64 bits when it is not 0).
RECURSIVE CarryIn(_, _, _, _)
CarryIn(n, m, d, i) ==
    IF i = 1 THEN d
    ELSE (n[i - 1] * m + CarryIn(n, m, d, i - 1)) \div LimbBase

MulAdd(n, m, d) ==
    [val  |-> [i \in 1..NumLimbs |-> (n[i] * m + CarryIn(n, m, d, i)) % LimbBase],
     over |-> CarryIn(n, m, d, NumLimbs + 1) # 0]

\* n++ on a uint64: wraps to 0 after the largest value.
U64Inc(n) == MulAdd(n, 1, 1).val

\* v < o on uint64: decided by the most significant limb that differs.
U64Less(v, o) ==
    \E i \in 1..NumLimbs :
        /\ v[i] < o[i]
        /\ \A j \in (i + 1)..NumLimbs : v[j] = o[j]

\* strconv.ParseUint(s, 10, 64): a syntax error for the empty string and for
\* any character that is not a digit (no sign, no underscore), a range error
\* for a value above 2^64 - 1.
RECURSIVE ParseDigits(_, _)
ParseDigits(s, acc) ==
    IF s = <<>> THEN [ok |-> TRUE, val |-> acc]
    ELSE IF s[1] \notin num THEN [ok |-> FALSE, val |-> U64Zero]
    ELSE LET r == MulAdd(acc, 10, IndexIn(digits, s[1]) - 1)
         IN  IF r.over
             THEN [ok |-> FALSE, val |-> U64Max]
             ELSE ParseDigits(Tail(s), r.val)

ParseUint(s) ==
    IF s = <<>> THEN [ok |-> FALSE, val |-> U64Zero]
    ELSE ParseDigits(s, U64Zero)

\* n \div 10 and n % 10 on limbs (long division from the top limb).
RECURSIVE RemFrom(_, _)
RemFrom(n, i) ==
    IF i > NumLimbs THEN 0
    ELSE (RemFrom(n, i + 1) * LimbBase + n[i]) % 10

Div10(n) ==
    [i \in 1..NumLimbs |-> (RemFrom(n, i + 1) * LimbBase + n[i]) \div 10]

\* strconv.FormatUint(n, 10): the decimal digits, "0" for zero.
RECURSIVE FormatUint(_)
FormatUint(n) ==
    LET d == <<digits[RemFrom(n, 1) + 1]>>
        q == Div10(n)
    IN  IF q = U64Zero THEN d ELSE FormatUint(q) \o d

-----------------------------------------------------------------------------
(* Version: parsing *)

\* type Version struct { parts []uint64; pre, metadata, original string },
\* with the parts slice held by value.
Ver(parts, pre, metadata, original) ==
    [parts |-> parts, pre |-> pre, metadata |-> metadata, original |-> original]

\* The nil *Version that the parsers return beside an error.
NilVersion == Ver(<<>>, <<>>, <<>>, <<>>)

Result(err, sv) == [err |-> err, sv |-> sv]

\* validatePrerelease(p): the identifiers are checked from left to right and
\* the first offending one decides the error.
RECURSIVE validatePreParts(_)
validatePreParts(eparts) ==
    IF eparts = <<>> THEN "nil"
    ELSE LET p == eparts[1]
         IN  IF containsOnly(p, num)
             THEN IF Len(p) > 1 /\ p[1] = "0"
                  THEN "ErrSegmentStartsZero"
                  ELSE validatePreParts(Tail(eparts))
             ELSE IF ~containsOnly(p, allowed)
                  THEN "ErrInvalidPrerelease"
                  ELSE validatePreParts(Tail(eparts))

validatePrerelease(p) == validatePreParts(Split(p, "."))

\* validateMetadata(m)
validateMetadata(m) ==
    IF \E i \in 1..Len(Split(m, ".")) : ~containsOnly(Split(m, ".")[i], allowed)
    THEN "ErrInvalidMetadata"
    ELSE "nil"

\* The first split of StrictNewVersion: the numeric body, the prerelease and
\* the metadata of v.
SplitVersion(v) ==
    LET i  == Index(v, "-")
        j  == Index(v, "+")
        partsString == IF i # 0 THEN SubSeq(v, 1, i - 1)
                       ELSE IF j # 0 THEN SubSeq(v, 1, j - 1)
                       ELSE v
        pre1 == IF i # 0 THEN SubSeq(v, i + 1, Len(v)) ELSE <<>>
        md1  == IF i = 0 /\ j # 0 THEN SubSeq(v, j + 1, Len(v)) ELSE <<>>
        k    == Index(pre1, "+")
    IN  [partsString |-> partsString,
         pre         |-> IF k # 0 THEN SubSeq(pre1, 1, k - 1) ELSE pre1,
         metadata    |-> IF k # 0 THEN SubSeq(pre1, k + 1, Len(pre1)) ELSE md1]

\* The loop over the numeric segments: the error of the first segment that
\* does not parse (ErrInvalidCharacters) or that starts with a zero.
RECURSIVE partsError(_)
partsError(parts) ==
    IF parts = <<>> THEN "nil"
    ELSE IF ~ParseUint(parts[1]).ok THEN "ErrInvalidCharacters"
    ELSE IF Len(parts[1]) > 1 /\ parts[1][1] = "0" THEN "ErrSegmentStartsZero"
    ELSE partsError(Tail(parts))

StrictNewVersion(v) ==
    IF Len(v) = 0 THEN Result("ErrEmptyString", NilVersion)
    ELSE
    LET sp    == SplitVersion(v)
        parts == Split(sp.partsString, ".")
        perr  == partsError(parts)
        sv    == Ver([i \in 1..Len(parts) |-> ParseUint(parts[i]).val],
                     sp.pre, sp.metadata, v)
    IN  IF perr # "nil" THEN Result(perr, NilVersion)
        ELSE IF sp.pre = <<>> /\ sp.metadata = <<>> THEN Result("nil", sv)
        ELSE IF sp.pre # <<>> /\ validatePrerelease(sp.pre) # "nil"
             THEN Result(validatePrerelease(sp.pre), NilVersion)
        ELSE IF sp.metadata # <<>> /\ validateMetadata(sp.metadata) # "nil"
             THEN Result(validateMetadata(sp.metadata), NilVersion)
        ELSE Result("nil", sv)

\* NewVersion without the assignment sv.original = v.
NewVersion_keepsTrimmed(v) == StrictNewVersion(TrimPrefix(v, "v"))

\* NewVersion with every leading "v" removed (strings.TrimLeft).
RECURSIVE NewVersion_trimsAll(_)
NewVersion_trimsAll(v) ==
    IF HasPrefix(v, "v") /\ HasPrefix(Tail(v), "v")
    THEN LET r == NewVersion_trimsAll(Tail(v))
         IN  IF r.err # "nil" THEN r
             ELSE Result("nil", [r.sv EXCEPT !.original = v])
    ELSE LET r == StrictNewVersion(TrimPrefix(v, "v"))
         IN  IF r.err # "nil" THEN r
             ELSE Result("nil", [r.sv EXCEPT !.original = v])

NewVersion(v) ==
    LET r == StrictNewVersion(TrimPrefix(v, "v"))
    IN  IF r.err # "nil" THEN r
        ELSE Result("nil", [r.sv EXCEPT !.original = v])

\* Original()
Original(v) == v.original

-----------------------------------------------------------------------------
(* Version: comparison *)

\* PartsNumber()
PartsNumber(v) == Len(v.parts)

\* Part(part) with the missing parts read as 1.
Part_missingIsOne(v, part) ==
    IF Len(v.parts) >= part THEN v.parts[part] ELSE U64Inc(U64Zero)

\* Part(part), for part >= 1: 0 beyond the last part.
Part(v, part) == IF Len(v.parts) >= part THEN v.parts[part] ELSE U64Zero

\* maxPartsNumberOf(v1, v2)
maxPartsNumberOf(v1, v2) ==
    IF PartsNumber(v2) > PartsNumber(v1) THEN PartsNumber(v2) ELSE PartsNumber(v1)

\* compareSegment(v, o)
compareSegment(v, o) ==
    IF U64Less(v, o) THEN -1 ELSE IF U64Less(o, v) THEN 1 ELSE 0

\* comparePrePart with -1 returned in both mixed cases.
comparePrePart_mixedAlwaysLess(s, o) ==
    IF s = o THEN 0
    ELSE IF s = <<>> THEN (IF o # <<>> THEN -1 ELSE 1)
    ELSE IF o = <<>> THEN (IF s # <<>> THEN 1 ELSE -1)
    ELSE LET oi == ParseUint(o)
             si == ParseUint(s)
         IN  IF ~oi.ok /\ ~si.ok THEN (IF StrLess(o, s) THEN 1 ELSE -1)
             ELSE IF ~oi.ok THEN -1
             ELSE IF ~si.ok THEN -1
             ELSE IF U64Less(oi.val, si.val) THEN 1 ELSE -1

\* comparePrePart(s, o)
comparePrePart(s, o) ==
    IF s = o THEN 0
    ELSE IF s = <<>> THEN (IF o # <<>> THEN -1 ELSE 1)
    ELSE IF o = <<>> THEN (IF s # <<>> THEN 1 ELSE -1)
    ELSE LET oi == ParseUint(o)
             si == ParseUint(s)
         IN  IF ~oi.ok /\ ~si.ok THEN (IF StrLess(o, s) THEN 1 ELSE -1)
             ELSE IF ~oi.ok THEN -1
             ELSE IF ~si.ok THEN 1
             ELSE IF U64Less(oi.val, si.val) THEN 1 ELSE -1

\* The loop of comparePrerelease from index i (counted from 1) on, the
\* shorter list read as followed by empty identifiers.
RECURSIVE comparePreFrom(_, _, _)
comparePreFrom(sparts, oparts, i) ==
    IF i > Len(sparts) /\ i > Len(oparts) THEN 0
    ELSE LET stemp == IF i <= Len(sparts) THEN sparts[i] ELSE <<>>
             otemp == IF i <= Len(oparts) THEN oparts[i] ELSE <<>>
             d     == comparePrePart(stemp, otemp)
         IN  IF d # 0 THEN d ELSE comparePreFrom(sparts, oparts, i + 1)

\* comparePrerelease(v, o)
comparePrerelease(v, o) == comparePreFrom(Split(v, "."), Split(o, "."), 1)

\* The loop of Compare over the parts i..n.
RECURSIVE compareParts(_, _, _, _)
compareParts(v, o, i, n) ==
    IF i > n THEN 0
    ELSE LET d == compareSegment(Part(v, i), Part(o, i))
         IN  IF d # 0 THEN d ELSE compareParts(v, o, i + 1, n)

\* Compare with the metadata breaking the tie between two releases.
Compare_metadataCounts(v, o) ==
    LET d == compareParts(v, o, 1, maxPartsNumberOf(v, o))
    IN  IF d # 0 THEN d
        ELSE IF v.pre = <<>> /\ o.pre = <<>>
             THEN (IF v.metadata = o.metadata THEN 0
                   ELSE IF StrLess(v.metadata, o.metadata) THEN -1 ELSE 1)
        ELSE IF v.pre = <<>> THEN 1
        ELSE IF o.pre = <<>> THEN -1
        ELSE comparePrerelease(v.pre, o.pre)

\* Compare(o)
Compare(v, o) ==
    LET d == compareParts(v, o, 1, maxPartsNumberOf(v, o))
    IN  IF d # 0 THEN d
        ELSE IF v.pre = <<>> /\ o.pre = <<>> THEN 0
        ELSE IF v.pre = <<>> THEN 1
        ELSE IF o.pre = <<>> THEN -1
        ELSE comparePrerelease(v.pre, o.pre)

\* Equal(o)
Equal(v, o) == Compare(v, o) = 0

-----------------------------------------------------------------------------
(* Version: the operations that return a changed copy.                     *)
(*                                                                         *)
(* Here a Version holds its parts as a Go slice does: the field parts is   *)
(* the address of a backing array in the heap h, a sequence of arrays.     *)
(* Every operation takes the heap and returns the heap it leaves.          *)

\* The fields of the version at v, its parts read from the heap.
Deref(h, v) == Ver(h[v.parts], v.pre, v.metadata, v.original)

\* A parsed version placed in the heap: make([]uint64, len(parts)).
New(h, sv) == [heap |-> Append(h, sv.parts), ver |-> [sv EXCEPT !.parts = Len(h) + 1]]

\* Copy with the parts slice of the receiver taken as it is.
Copy_sharesParts(h, v) == [heap |-> h, ver |-> v]

\* Copy(): append([]uint64{}, v.parts...) is a new array.
Copy(h, v) == [heap |-> Append(h, h[v.parts]), ver |-> [v EXCEPT !.parts = Len(h) + 1]]

\* joinNumbers / the switch of updateOriginal: the parts in decimal with
\* dots between them, nothing for no parts.
RECURSIVE joinNumbers(_)
joinNumbers(nums) ==
    IF nums = <<>> THEN <<>>
    ELSE IF Len(nums) = 1 THEN FormatUint(nums[1])
    ELSE FormatUint(nums[1]) \o <<".">> \o joinNumbers(Tail(nums))

\* NewVersionByParts(nums...): nums is taken as it is, none included.
NewVersionByParts(nums) == Ver(nums, <<>>, <<>>, joinNumbers(nums))

\* Major(): v.parts[0], which panics (index out of range) without parts
Major(h, v) == h[v.parts][1]

\* originalVPrefix()
originalVPrefix(v) ==
    IF v.original # <<>> /\ v.original[1] = "v" THEN <<"v">> ELSE <<>>

\* updateOriginal()
updateOriginal(h, v) ==
    [v EXCEPT !.original =
        originalVPrefix(v) \o joinNumbers(h[v.parts])
            \o (IF v.pre # <<>> THEN <<"-">> \o v.pre ELSE <<>>)
            \o (IF v.metadata # <<>> THEN <<"+">> \o v.metadata ELSE <<>>)]

\* ensurePartsNumber(expect): append of the missing zeros makes a new array
\* (a parsed version's slice has no spare capacity; one that has is not
\* shared, so that writing in place would show the same values).
ensurePartsNumber(h, v, expect) ==
    IF Len(h[v.parts]) >= expect THEN [heap |-> h, ver |-> v]
    ELSE [heap |-> Append(h, h[v.parts] \o [i \in 1..(expect - Len(h[v.parts])) |-> U64Zero]),
          ver  |-> [v EXCEPT !.parts = Len(h) + 1]]

\* IncPart(part), for part >= 1
IncPart(h, v, part) ==
    LET c  == Copy(h, v)
        e  == ensurePartsNumber(c.heap, c.ver, part)
        p  == e.ver.parts
        n  == Len(e.heap[p])
        vNext == [e.ver EXCEPT !.metadata = <<>>, !.pre = <<>>]
        h2 == IF n <= part
              THEN IF e.ver.pre # <<>> THEN e.heap
                   ELSE [e.heap EXCEPT ![p][n] = U64Inc(@)]
              ELSE [e.heap EXCEPT ![p] =
                      [k \in 1..n |-> IF k = part THEN U64Inc(@[k])
                                      ELSE IF k > part THEN U64Zero ELSE @[k]]]
    IN  [heap |-> h2, ver |-> updateOriginal(h2, vNext)]

\* IncPatch(), IncMinor(), IncMajor(), IncLast()
IncPatch(h, v) == IncPart(h, v, 3)
IncMinor(h, v) == IncPart(h, v, 2)
IncMajor(h, v) == IncPart(h, v, 1)
IncLast(h, v) == IncPart(h, v, Len(h[v.parts]))

\* SetPrerelease that sets the field before it validates.
SetPrerelease_setsBeforeValidating(h, v, prerelease) ==
    LET c   == Copy(h, v)
        err == IF Len(prerelease) > 0 THEN validatePrerelease(prerelease) ELSE "nil"
    IN  [heap |-> c.heap,
         ver  |-> updateOriginal(c.heap, [c.ver EXCEPT !.pre = prerelease]),
         err  |-> err]

\* SetPrerelease(prerelease): the copy (unchanged on an error) and the error
SetPrerelease(h, v, prerelease) ==
    LET c   == Copy(h, v)
        err == IF Len(prerelease) > 0 THEN validatePrerelease(prerelease) ELSE "nil"
    IN  IF err # "nil" THEN [heap |-> c.heap, ver |-> c.ver, err |-> err]
        ELSE [heap |-> c.heap,
              ver  |-> updateOriginal(c.heap, [c.ver EXCEPT !.pre = prerelease]),
              err  |-> "nil"]

\* SetMetadata(metadata)
SetMetadata(h, v, metadata) ==
    LET c   == Copy(h, v)
        err == IF Len(metadata) > 0 THEN validateMetadata(metadata) ELSE "nil"
    IN  IF err # "nil" THEN [heap |-> c.heap, ver |-> c.ver, err |-> err]
        ELSE [heap |-> c.heap,
              ver  |-> updateOriginal(c.heap, [c.ver EXCEPT !.metadata = metadata]),
              err  |-> "nil"]

-----------------------------------------------------------------------------
(* Constraints: the regular expressions of constraint.go, matched as       *)
(* Go's regexp package matches them (leftmost, then by the priority of     *)
(* alternatives and greedy repetition).  Positions are counted from 1; an  *)
(* end is the position after the last matched character; 0 is "no match".  *)

\* \s
Space == {" ", "\t"}

\* [0-9|x|X|\*] : inside the brackets the bar is a character like the others
SegChars == num \cup {"|", "x", "X", "*"}

\* const ops = `=||!=|>|<|>=|=>|<=|=<|~|~>|\^` : the alternatives in their
\* order; the second one is empty.
ops == << <<"=">>, <<>>, <<"!", "=">>, <<">">>, <<"<">>, <<">", "=">>,
          <<"=", ">">>, <<"<", "=">>, <<"=", "<">>, <<"~">>, <<"~", ">">>,
          <<"^">> >>

\* s has lit at position i.
LitAt(s, i, lit) ==
    /\ i + Len(lit) - 1 <= Len(s)
    /\ \A k \in 1..Len(lit) : s[i + k - 1] = lit[k]

\* The end of the longest run of characters of class from position i.
RECURSIVE RunEnd(_, _, _)
RunEnd(s, i, class) ==
    IF i <= Len(s) /\ s[i] \in class THEN RunEnd(s, i + 1, class) ELSE i

\* \s* from position i.
SkipSpace(s, i) == RunEnd(s, i, Space)

\* The end of the longest match of class+(\.class+)* from position i; i
\* itself when there is none.
RECURSIVE DottedEnd(_, _, _)
DottedEnd(s, i, class) ==
    LET e == RunEnd(s, i, class)
    IN  IF e = i THEN i
        ELSE IF e + 1 <= Len(s) /\ s[e] = "." /\ s[e + 1] \in class
             THEN DottedEnd(s, e + 1, class)
             ELSE e

\* (sign class+(\.class+)*)? from position e: the end with the group, or e.
OptionalEnd(s, e, sign) ==
    IF e <= Len(s) /\ s[e] = sign /\ DottedEnd(s, e + 1, allowed) > e + 1
    THEN DottedEnd(s, e + 1, allowed)
    ELSE e

\* cvRegex from position i: where the numbers start, where they end, where
\* the prerelease group ends and where the metadata group ends, all for the
\* longest match (the first that the greedy groups give); ok is false when
\* cvRegex matches nothing at i.
cvMatch(s, i) ==
    LET a == IF i <= Len(s) /\ s[i] = "v" THEN i + 1 ELSE i
        b == DottedEnd(s, a, SegChars)
        p == OptionalEnd(s, b, "-")
        m == OptionalEnd(s, p, "+")
    IN  [ok |-> b > a, from |-> a, body |-> b, pre |-> p, end |-> m]

\* The ends of all matches of cvRegex from position i: the groups may be
\* left out and the runs cut short.
cvEnds(s, i) ==
    LET c == cvMatch(s, i)
    IN  IF ~c.ok THEN {}
        ELSE {j \in (c.from + 1)..c.body : s[j - 1] \in SegChars}
             \cup {j \in (c.body + 2)..c.pre : s[j - 1] \in allowed}
             \cup {j \in (c.pre + 2)..c.end : s[j - 1] \in allowed}

\* The alternatives of ops that s has at position i with cvRegex after
\* them and \s* between, in the order of ops.
OpsAt(s, i) ==
    SelectSeq(ops, LAMBDA o :
        LitAt(s, i, o) /\ cvMatch(s, SkipSpace(s, i + Len(o))).ok)

\* validConstraintRegex = ^(\s*(ops)\s*(cvRegex)\s*\,?)+$ from position i.
RECURSIVE ValidFrom(_, _)
ValidFrom(s, i) ==
    LET a == SkipSpace(s, i)
    IN  \E k \in 1..Len(ops) :
           /\ LitAt(s, a, ops[k])
           /\ \E j \in cvEnds(s, SkipSpace(s, a + Len(ops[k]))) :
                 LET e == SkipSpace(s, j)
                 IN  \/ e = Len(s) + 1
                     \/ e = Len(s) /\ s[e] = ","
                     \/ ValidFrom(s, e)
                     \/ e < Len(s) /\ s[e] = "," /\ ValidFrom(s, e + 1)

\* validConstraintRegex.MatchString(s)
validConstraintRegex(s) == ValidFrom(s, 1)

\* findConstraintRegex = (ops)\s*(cvRegex) at position i: the end of the
\* match, 0 without one.
FindAt(s, i) ==
    LET os == OpsAt(s, i)
    IN  IF os = <<>> THEN 0
        ELSE cvMatch(s, SkipSpace(s, i + Len(os[1]))).end

\* findConstraintRegex.FindAllString(s, -1) from position i
RECURSIVE FindAllFrom(_, _)
FindAllFrom(s, i) ==
    IF i > Len(s) THEN <<>>
    ELSE LET e == FindAt(s, i)
         IN  IF e = 0 THEN FindAllFrom(s, i + 1)
             ELSE <<SubSeq(s, i, e - 1)>> \o FindAllFrom(s, e)

findConstraintRegex(s) == FindAllFrom(s, 1)

\* constraintRegex.FindStringSubmatch(c), constraintRegex being
\* ^\s*(ops)\s*(cvRegex)\s*$ : m[1] and m[2], ok false for a nil m.
constraintRegex(c) ==
    LET a  == SkipSpace(c, 1)
        os == SelectSeq(ops, LAMBDA o :
                 /\ LitAt(c, a, o)
                 /\ \E j \in cvEnds(c, SkipSpace(c, a + Len(o))) :
                       SkipSpace(c, j) = Len(c) + 1)
    IN  IF os = <<>> THEN [ok |-> FALSE, m1 |-> <<>>, m2 |-> <<>>]
        ELSE LET j == CHOOSE j \in cvEnds(c, SkipSpace(c, a + Len(os[1]))) :
                        SkipSpace(c, j) = Len(c) + 1
             IN  [ok |-> TRUE, m1 |-> os[1],
                  m2 |-> SubSeq(c, SkipSpace(c, a + Len(os[1])), j - 1)]

\* constraintRangeRegex = \s*(cvRegex)\s+-\s+(cvRegex)\s* at position i:
\* v[1], v[10] and the end of v[0]; ok false without a match.
RangeAt(s, i) ==
    LET a == SkipSpace(s, i)
        A == cvMatch(s, a)
        d == SkipSpace(s, A.end)
        b == SkipSpace(s, d + 1)
        B == cvMatch(s, b)
    IN  IF /\ A.ok /\ d > A.end /\ d <= Len(s) /\ s[d] = "-"
           /\ b > d + 1 /\ B.ok
        THEN [ok |-> TRUE, v1 |-> SubSeq(s, a, A.end - 1),
              v10 |-> SubSeq(s, b, B.end - 1), end |-> SkipSpace(s, B.end)]
        ELSE [ok |-> FALSE, v1 |-> <<>>, v10 |-> <<>>, end |-> 0]

\* constraintRangeRegex.FindAllStringSubmatch(s, -1) from position i: the
\* matches as records with v0, v1 and v10.
RECURSIVE RangesFrom(_, _)
RangesFrom(s, i) ==
    IF i > Len(s) THEN <<>>
    ELSE LET r == RangeAt(s, i)
         IN  IF ~r.ok THEN RangesFrom(s, i + 1)
             ELSE <<[v0 |-> SubSeq(s, i, r.end - 1), v1 |-> r.v1, v10 |-> r.v10]>>
                      \o RangesFrom(s, r.end)

-----------------------------------------------------------------------------
(* Constraints: parsing *)

\* type constraint struct { con *Version; orig, origfunc string; dirtyPart int }
Constraint(con, orig, origfunc, dirtyPart) ==
    [con |-> con, orig |-> orig, origfunc |-> origfunc, dirtyPart |-> dirtyPart]

NilConstraint == Constraint(NilVersion, <<>>, <<>>, 0)

\* isX(x)
isX(x) == x \in {<<"x">>, <<"*">>, <<"X">>}

\* strings.IndexAny(s, chars), counted from 1; 0 when no character is found.
IndexAny(s, chars) ==
    IF \E i \in 1..Len(s) : s[i] \in chars
    THEN CHOOSE i \in 1..Len(s) :
            s[i] \in chars /\ \A j \in 1..(i - 1) : s[j] \notin chars
    ELSE 0

\* The dirty part of the split numbers: the index of the first x, 0 without.
firstDirty(verParts) ==
    IF \E i \in 1..Len(verParts) : isX(verParts[i])
    THEN CHOOSE i \in 1..Len(verParts) :
            isX(verParts[i]) /\ \A j \in 1..(i - 1) : ~isX(verParts[j])
    ELSE 0

\* The end of parseConstraint: con, err := NewVersion(...) and the result,
\* r being what NewVersion returned.
parseConstraintVersion(m, dirtyPart, r) ==
    IF r.err # "nil"
    THEN [err |-> "constraint Parser Error", c |-> NilConstraint]
    ELSE [err |-> "nil", c |-> Constraint(r.sv, m.m2, m.m1, dirtyPart)]

\* The dirty part in parseConstraint: it must be the last part, and it is
\* taken off the numbers ("0" standing for a first x).
parseConstraintDirty(m, verWithoutTrailing, preAndMeta, verParts, dirtyPart) ==
    IF dirtyPart > 0 /\ dirtyPart # Len(verParts)
    THEN [err |-> "improper constraint", c |-> NilConstraint]
    ELSE parseConstraintVersion(m, dirtyPart,
             NewVersion((IF dirtyPart = 0 THEN verWithoutTrailing
                         ELSE IF dirtyPart = 1 THEN <<"0">>
                         ELSE SubSeq(verWithoutTrailing, 1,
                                     Len(verWithoutTrailing) - 2))
                        \o preAndMeta))

\* parseConstraint from the split at the first "+" or "-" on.
parseConstraintParts(m, verWithoutTrailing, preAndMeta, verParts) ==
    parseConstraintDirty(m, verWithoutTrailing, preAndMeta, verParts,
                         firstDirty(verParts))

parseConstraintSplit(m, verWithoutTrailing, preAndMeta) ==
    parseConstraintParts(m, verWithoutTrailing, preAndMeta,
                         Split(verWithoutTrailing, "."))

\* parseConstraint for the match m of constraintRegex, i being the index of
\* the first "+" or "-" in m[2].
parseConstraintMatch(m, i) ==
    IF ~m.ok THEN [err |-> "improper constraint", c |-> NilConstraint]
    ELSE parseConstraintSplit(m,
             IF i = 0 THEN m.m2 ELSE SubSeq(m.m2, 1, i - 1),
             IF i = 0 THEN <<>> ELSE SubSeq(m.m2, i, Len(m.m2)))

parseConstraintFound(m) == parseConstraintMatch(m, IndexAny(m.m2, {"+", "-"}))

\* parseConstraint(c): the constraint and the error, one of "nil",
\* "improper constraint" and "constraint Parser Error".
parseConstraint(c) ==
    IF Len(c) > 0 THEN parseConstraintFound(constraintRegex(c))
    ELSE [err |-> "nil",
          c |-> Constraint(Ver(<<U64Zero>>, <<>>, <<>>, <<"0">>), c, <<>>, 1)]

\* The position of the first occurrence of sub in s, 0 without one.
IndexOf(s, sub) ==
    IF \E i \in 1..(Len(s) - Len(sub) + 1) : LitAt(s, i, sub)
    THEN CHOOSE i \in 1..(Len(s) - Len(sub) + 1) :
            LitAt(s, i, sub) /\ \A j \in 1..(i - 1) : ~LitAt(s, j, sub)
    ELSE 0

\* strings.Replace(s, old, new, 1) for a non-empty old
ReplaceFirst(s, old, new) ==
    LET i == IndexOf(s, old)
    IN  IF i = 0 THEN s
        ELSE SubSeq(s, 1, i - 1) \o new \o SubSeq(s, i + Len(old), Len(s))

\* The loop of rewriteRange with an upper end that is left out.
RECURSIVE rewriteMatches_exclusiveEnd(_, _)
rewriteMatches_exclusiveEnd(o, m) ==
    IF m = <<>> THEN o
    ELSE rewriteMatches_exclusiveEnd(
             ReplaceFirst(o, m[1].v0,
                 <<">", "=", " ">> \o m[1].v1 \o <<",", " ", "<", " ">>
                     \o m[1].v10),
             Tail(m))

\* The loop of rewriteRange over the matches m.
RECURSIVE rewriteMatches(_, _)
rewriteMatches(o, m) ==
    IF m = <<>> THEN o
    ELSE rewriteMatches(
             ReplaceFirst(o, m[1].v0,
                 <<">", "=", " ">> \o m[1].v1 \o <<",", " ", "<", "=", " ">>
                     \o m[1].v10),
             Tail(m))

\* rewriteRange(i)
rewriteRange(i) == rewriteMatches(i, RangesFrom(i, 1))

\* strings.Split(s, "||")
RECURSIVE SplitOrs(_)
SplitOrs(s) ==
    LET i == IndexOf(s, <<"|", "|">>)
    IN  IF i = 0 THEN <<s>>
        ELSE <<SubSeq(s, 1, i - 1)>> \o SplitOrs(SubSeq(s, i + 2, Len(s)))

\* One turn of the inner loop of NewConstraint: pc is the parsed constraint,
\* rest what the later turns give.
parseAllStep(pc, rest) ==
    IF pc.err # "nil" THEN [err |-> pc.err, result |-> <<>>]
    ELSE IF rest.err # "nil" THEN rest
    ELSE [err |-> "nil", result |-> <<pc.c>> \o rest.result]

\* The inner loop of NewConstraint over the found constraints cs.
RECURSIVE parseAll(_)
parseAll(cs) ==
    IF cs = <<>> THEN [err |-> "nil", result |-> <<>>]
    ELSE parseAllStep(parseConstraint(cs[1]), parseAll(Tail(cs)))

\* The body of the outer loop of NewConstraint for the segment v, found
\* being what findConstraintRegex finds in it.
parseSegment(v, found) ==
    IF ~validConstraintRegex(v) THEN [err |-> "improper constraint", result |-> <<>>]
    ELSE parseAll(IF found = <<>> THEN <<v>> ELSE found)

\* One turn of the outer loop of NewConstraint: seg is the parsed segment,
\* rest what the later turns give.
parseOrsStep(seg, rest) ==
    IF seg.err # "nil" THEN [err |-> seg.err, constraints |-> <<>>]
    ELSE IF rest.err # "nil" THEN rest
    ELSE [err |-> "nil", constraints |-> <<seg.result>> \o rest.constraints]

\* The outer loop of NewConstraint over the segments ors.
RECURSIVE parseOrs(_)
parseOrs(ors) ==
    IF ors = <<>> THEN [err |-> "nil", constraints |-> <<>>]
    ELSE parseOrsStep(parseSegment(ors[1], findConstraintRegex(ors[1])),
                      parseOrs(Tail(ors)))

\* NewConstraint(c): the OR-groups and the error.
NewConstraint(c) == parseOrs(SplitOrs(rewriteRange(c)))

-----------------------------------------------------------------------------
(* Constraints: evaluation.  A check returns its boolean and its error,    *)
(* the error being the text of its message without the values, "nil"       *)
(* without error.                                                          *)

Pass == [ok |-> TRUE, err |-> "nil"]
Fail(err) == [ok |-> FALSE, err |-> err]

ReleaseOnly == "is a prerelease version and the constraint is only looking for release versions"

\* LessThan(o)
LessThan(v, o) == Compare(v, o) < 0

\* maxNonDirtyPartsNumberOf(v, c)
maxNonDirtyPartsNumberOf(v, c) ==
    LET n == maxPartsNumberOf(v, c.con)
    IN  IF c.dirtyPart > 0 /\ n > c.dirtyPart THEN c.dirtyPart ELSE n

\* constraintNotEqual that looks for releases only, as the others do.
constraintNotEqual_releaseOnly(v, c) ==
    IF v.pre # <<>> /\ c.con.pre = <<>> THEN Fail(ReleaseOnly)
    ELSE IF Equal(v, c.con) THEN Fail("is equal to") ELSE Pass

\* constraintNotEqual(v, c)
constraintNotEqual(v, c) ==
    IF c.dirtyPart > 0
    THEN IF v.pre # <<>> \/ c.con.pre # <<>>
         THEN Fail("not-euqual constraint is not applicable on pre-release generic version")
         ELSE IF \E i \in 1..(maxNonDirtyPartsNumberOf(v, c) - 1) :
                    Part(c.con, i) # Part(v, i)
              THEN Pass
              ELSE Fail("is equal to")
    ELSE IF Equal(v, c.con) THEN Fail("is equal to") ELSE Pass

\* constraintGreaterThan(v, c)
constraintGreaterThan(v, c) ==
    IF v.pre # <<>> /\ c.con.pre = <<>> THEN Fail(ReleaseOnly)
    ELSE IF Compare(v, c.con) = 1 THEN Pass
    ELSE Fail("is less than or equal to")

\* constraintLessThan(v, c)
constraintLessThan(v, c) ==
    IF v.pre # <<>> /\ c.con.pre = <<>> THEN Fail(ReleaseOnly)
    ELSE IF Compare(v, c.con) = -1 THEN Pass
    ELSE Fail("is greater than or equal to")

\* constraintGreaterThanEqual without the release-only rule.
constraintGreaterThanEqual_anyPrerelease(v, c) ==
    IF Compare(v, c.con) >= 0 THEN Pass ELSE Fail("is less than")

\* constraintGreaterThanEqual(v, c)
constraintGreaterThanEqual(v, c) ==
    IF v.pre # <<>> /\ c.con.pre = <<>> THEN Fail(ReleaseOnly)
    ELSE IF Compare(v, c.con) >= 0 THEN Pass
    ELSE Fail("is less than")

\* constraintLessThanEqual(v, c)
constraintLessThanEqual(v, c) ==
    IF v.pre # <<>> /\ c.con.pre = <<>> THEN Fail(ReleaseOnly)
    ELSE IF Compare(v, c.con) <= 0 THEN Pass
    ELSE Fail("is greater than")

\* dirtyPartOrLen that does not look at the dirty part.
dirtyPartOrLen_alwaysLen(c) == PartsNumber(c.con)

\* dirtyPartOrLen()
dirtyPartOrLen(c) == IF c.dirtyPart > 0 THEN c.dirtyPart ELSE PartsNumber(c.con)

\* constraintTilde(v, c)
constraintTilde(v, c) ==
    IF v.pre # <<>> /\ c.con.pre = <<>> THEN Fail(ReleaseOnly)
    ELSE IF LessThan(v, c.con) THEN Fail("is less than")
    ELSE IF \E i \in 1..(dirtyPartOrLen(c) - 1) : Part(v, i) # Part(c.con, i)
         THEN Fail("does not have same part")
    ELSE Pass

\* constraintTildeOrEqual that is a straight = with a dirty part as well.
constraintTildeOrEqual_alwaysEqual(v, c) ==
    IF v.pre # <<>> /\ c.con.pre = <<>> THEN Fail(ReleaseOnly)
    ELSE IF Equal(v, c.con) THEN Pass
    ELSE Fail("is not equal to")

\* constraintTildeOrEqual(v, c)
constraintTildeOrEqual(v, c) ==
    IF v.pre # <<>> /\ c.con.pre = <<>> THEN Fail(ReleaseOnly)
    ELSE IF c.dirtyPart > 0 THEN constraintTilde(v, c)
    ELSE IF Equal(v, c.con) THEN Pass
    ELSE Fail("is not equal to")

\* leftZeroPartNumber()
RECURSIVE leftZeroPartNumber(_)
leftZeroPartNumber(parts) ==
    IF parts # <<>> /\ parts[1] = U64Zero
    THEN 1 + leftZeroPartNumber(Tail(parts))
    ELSE 0

\* constraintCaret without the release-only rule.
constraintCaret_anyPrerelease(v, c) ==
    IF leftZeroPartNumber(c.con.parts) = PartsNumber(c.con)
    THEN Fail("caret constraint not support")
    ELSE IF LessThan(v, c.con) THEN Fail("is less than")
    ELSE IF \E i \in 1..leftZeroPartNumber(c.con.parts) :
               Part(v, i) # Part(c.con, i)
         THEN Fail("part should be equal")
    ELSE Pass

\* constraintCaret(v, c)
constraintCaret(v, c) ==
    IF v.pre # <<>> /\ c.con.pre = <<>> THEN Fail(ReleaseOnly)
    ELSE IF leftZeroPartNumber(c.con.parts) = PartsNumber(c.con)
         THEN Fail("caret constraint not support")
    ELSE IF LessThan(v, c.con) THEN Fail("is less than")
    ELSE IF \E i \in 1..leftZeroPartNumber(c.con.parts) :
               Part(v, i) # Part(c.con, i)
         THEN Fail("part should be equal")
    ELSE Pass

\* constraintOps[c.origfunc](v, c): check(v)
check(c, v) ==
    CASE c.origfunc \in {<<>>, <<"=">>} -> constraintTildeOrEqual(v, c)
      [] c.origfunc = <<"!", "=">> -> constraintNotEqual(v, c)
      [] c.origfunc = <<">">> -> constraintGreaterThan(v, c)
      [] c.origfunc = <<"<">> -> constraintLessThan(v, c)
      [] c.origfunc \in {<<">", "=">>, <<"=", ">">>} -> constraintGreaterThanEqual(v, c)
      [] c.origfunc \in {<<"<", "=">>, <<"=", "<">>} -> constraintLessThanEqual(v, c)
      [] c.origfunc \in {<<"~">>, <<"~", ">">>} -> constraintTilde(v, c)
      [] c.origfunc = <<"^">> -> constraintCaret(v, c)

\* The inner loop of Check over the constraints of a group from the i-th.
RECURSIVE joy(_, _, _)
joy(o, v, i) ==
    IF i > Len(o) THEN TRUE
    ELSE IF ~check(o[i], v).ok THEN FALSE
    ELSE joy(o, v, i + 1)

\* Check(v): the loop over the groups from the k-th.
RECURSIVE CheckFrom(_, _, _)
CheckFrom(cs, v, k) ==
    IF k > Len(cs) THEN FALSE
    ELSE IF joy(cs[k], v, 1) THEN TRUE
    ELSE CheckFrom(cs, v, k + 1)

\* Check that gives up after the first group.
Check_firstGroupOnly(cs, v) == cs # <<>> /\ joy(cs[1], v, 1)

Check(cs, v) == CheckFrom(cs, v, 1)

\* The inner loop of Validate that leaves a group at its first failure, as
\* the loop of Check does.
RECURSIVE validateGroup_stopsAtFirst(_, _, _, _)
validateGroup_stopsAtFirst(o, v, i, st) ==
    IF i > Len(o) THEN st
    ELSE IF o[i].con.pre = <<>> /\ v.pre # <<>>
         THEN [e |-> IF st.prerelesase THEN st.e ELSE Append(st.e, ReleaseOnly),
               prerelesase |-> TRUE, joy |-> FALSE]
    ELSE IF check(o[i], v).err # "nil"
         THEN [e |-> Append(st.e, check(o[i], v).err),
               prerelesase |-> st.prerelesase, joy |-> FALSE]
    ELSE validateGroup_stopsAtFirst(o, v, i + 1, st)

\* The inner loop of Validate over the constraints of a group from the
\* i-th: the errors so far, the prerelease mark and joy.
RECURSIVE validateGroup(_, _, _, _)
validateGroup(o, v, i, st) ==
    IF i > Len(o) THEN st
    ELSE LET c == o[i]
         IN  IF c.con.pre = <<>> /\ v.pre # <<>>
             THEN validateGroup(o, v, i + 1,
                     [e |-> IF st.prerelesase THEN st.e ELSE Append(st.e, ReleaseOnly),
                      prerelesase |-> TRUE, joy |-> FALSE])
             ELSE IF check(c, v).err # "nil"
                  THEN validateGroup(o, v, i + 1,
                          [e |-> Append(st.e, check(c, v).err),
                           prerelesase |-> st.prerelesase, joy |-> FALSE])
             ELSE validateGroup(o, v, i + 1, st)

\* Validate(v): the loop over the groups from the k-th.
RECURSIVE ValidateFrom(_, _, _, _)
ValidateFrom(cs, v, k, st) ==
    IF k > Len(cs) THEN [ok |-> FALSE, e |-> st.e]
    ELSE LET g == validateGroup(cs[k], v, 1,
                     [e |-> st.e, prerelesase |-> st.prerelesase, joy |-> TRUE])
         IN  IF g.joy THEN [ok |-> TRUE, e |-> <<>>]
             ELSE ValidateFrom(cs, v, k + 1, g)

Validate(cs, v) ==
    ValidateFrom(cs, v, 1, [e |-> <<>>, prerelesase |-> FALSE, joy |-> TRUE])

-----------------------------------------------------------------------------
(* The parsing machine: a text is given to NewVersion and to                *)
(* StrictNewVersion, each called once.                                      *)

\* The longest enumerated text.
MaxTextLen == 5

\* "v" is the prefix and, elsewhere, a letter; "_" is in no identifier.
ParseAlphabet == {"v", "0", "1", ".", "-", "+", "_"}

Strings(alphabet, n) == UNION {[1..k -> alphabet] : k \in 0..n}

\* 2^64 - 1 and 2^64 in decimal.
MaxUint64Text == <<"1", "8", "4", "4", "6", "7", "4", "4", "0", "7",
                   "3", "7", "0", "9", "5", "5", "1", "6", "1", "5">>
OverUint64Text == <<"1", "8", "4", "4", "6", "7", "4", "4", "0", "7",
                    "3", "7", "0", "9", "5", "5", "1", "6", "1", "6">>

\* Texts beyond the enumerated length: the limits of a 64-bit segment, and
\* longer combinations of a leading zero with another defect.
EdgeTexts ==
    {MaxUint64Text, OverUint64Text,
     <<"v">> \o MaxUint64Text \o <<".", "0">>,
     <<"v", "1", ".", "0", "-", "a", ".", "1", "+", "a", ".", "0", "1">>,
     OverUint64Text \o <<".", "0", "1">>,
     <<"0", "1", ".">> \o OverUint64Text,
     <<"1", "-", "_", ".", "0", "1">>,
     <<"1", "-", "0", "1", ".", "_">>,
     <<"1", "-", "a", ".", "0", "-", "1">>,
     <<"1", "+", "a", ".", "0", "1">>,
     <<"1", "+", "0", "1", ".", "-">>,
     <<"1", "-", "a", "+", "a", "-", "0", "1">>}

ParseTexts == Strings(ParseAlphabet, MaxTextLen) \cup EdgeTexts

Idle == "idle"

\* The constraint machine is not used.
NoConstraints ==
    /\ ctext = Idle /\ ctext2 = Idle /\ cand = Idle /\ cons = Idle /\ cons2 = Idle
    /\ checked = Idle /\ checked2 = Idle /\ validated = Idle
Pending == Result("pending", NilVersion)

InitParse ==
    /\ text \in ParseTexts
    /\ lenient = Pending
    /\ strictIn = <<>>
    /\ strict = Pending
    /\ va = Idle /\ vb = Idle /\ vc = Idle /\ cmp = Idle
    /\ heap = Idle /\ recv = Idle /\ recv0 = Idle /\ ret = Idle /\ call = Idle
    /\ NoConstraints

\* sv, err := NewVersion(text)
CallNewVersion ==
    /\ lenient = Pending
    /\ lenient' = NewVersion(text)
    /\ UNCHANGED <<text, strictIn, strict, va, vb, vc, cmp,
                   heap, recv, recv0, ret, call, cvars>>

\* sv, err := StrictNewVersion(s), for s the text or the text without its
\* first character.
CallStrictNewVersion ==
    /\ strict = Pending
    /\ \E s \in {text} \cup (IF text = <<>> THEN {} ELSE {Tail(text)}) :
          /\ strictIn' = s
          /\ strict' = StrictNewVersion(s)
    /\ UNCHANGED <<text, lenient, va, vb, vc, cmp,
                   heap, recv, recv0, ret, call, cvars>>

NextParse == CallNewVersion \/ CallStrictNewVersion

Spec == InitParse /\ [][NextParse]_vars

-----------------------------------------------------------------------------
(* The ordering machine: three versions are parsed, then compared with     *)
(* one another.                                                            *)

\* The parts of a pair's versions: at most MaxParts parts, each a digit of
\* PartDigits.
MaxParts == 3
PartDigits == {"0", "1"}

\* The parts of a triple's versions.
MaxOrderParts == 2

\* The longest enumerated prerelease of a pair.
MaxPreLen == 3
PreAlphabet == {"0", "1", "2", "a", "-", "."}

\* A decimal number above 2^64 - 1 with more digits than OverUint64Text,
\* and one with fewer digits than it.
TwentyOneDigits == <<"1">> \o [i \in 1..20 |-> "0"]
TwentyNines == [i \in 1..20 |-> "9"]

RECURSIVE JoinDots(_)
JoinDots(ps) ==
    IF Len(ps) = 1 THEN <<ps[1]>> ELSE <<ps[1], ".">> \o JoinDots(Tail(ps))

\* The numeric bodies of at most n parts.
Bodies(n) == {JoinDots(ps) : ps \in UNION {[1..k -> PartDigits] : k \in 1..n}}

\* body, "-" prerelease when there is one, "+" metadata when there is one
VersionText(body, pre, md) ==
    body \o (IF pre = <<>> THEN <<>> ELSE <<"-">> \o pre)
         \o (IF md = <<>> THEN <<>> ELSE <<"+">> \o md)

\* The versions NewVersion makes of a set of texts.
Parsed(texts) == {NewVersion(t).sv : t \in {u \in texts : NewVersion(u).err = "nil"}}

\* Triples: few parts; no prerelease, a number, a word, two identifiers, and
\* a numeric identifier above 2^64 - 1.
OrderPres == {<<>>, <<"1">>, <<"a">>, <<"a", ".", "1">>, OverUint64Text}

OrderVersions ==
    Parsed({VersionText(b, p, <<>>) : b \in Bodies(MaxOrderParts), p \in OrderPres})

\* Pairs that differ in parts, prerelease and metadata.
PairPres == {<<>>, <<"a">>, <<"1">>}
PairMetas == {<<>>, <<"a">>, <<"b">>}
OtherMetas == {<<>>, <<"b">>}

\* Pairs with the same parts up to zero padding and enumerated prereleases.
PrePool ==
    Strings(PreAlphabet, MaxPreLen)
        \cup {MaxUint64Text, OverUint64Text, TwentyOneDigits, TwentyNines,
              <<"a", ".", "1", "0">>, <<"a", ".", "a", ".", "1">>,
              <<"a", ".", "1", ".", "a">>, <<"a", ".", "a", ".">>}

NoCompare ==
    [done |-> FALSE, ab |-> 0, ba |-> 0, ac |-> 0, ca |-> 0, bc |-> 0, cb |-> 0,
     eqab |-> FALSE, eqba |-> FALSE]

OrderIdle ==
    /\ cmp = NoCompare
    /\ text = Idle /\ lenient = Idle /\ strictIn = Idle /\ strict = Idle
    /\ heap = Idle /\ recv = Idle /\ recv0 = Idle /\ ret = Idle /\ call = Idle
    /\ NoConstraints

InitOrder ==
    /\ va \in OrderVersions
    /\ vb \in OrderVersions
    /\ vc \in OrderVersions
    /\ OrderIdle

\* va and vb are any two versions; vc is va with another metadata.
InitPair ==
    /\ \E ba \in Bodies(MaxParts), pa \in PairPres, ma \in PairMetas, mc \in PairMetas :
          /\ va = NewVersion(VersionText(ba, pa, ma)).sv
          /\ vc = NewVersion(VersionText(ba, pa, mc)).sv
    /\ \E bb \in Bodies(MaxParts), pb \in PairPres, mb \in OtherMetas :
          vb = NewVersion(VersionText(bb, pb, mb)).sv
    /\ OrderIdle

PreVersionsA == Parsed({VersionText(<<"1">>, p, <<>>) : p \in PrePool \ {<<>>}})
PreVersionsB ==
    Parsed({VersionText(<<"1", ".", "0">>, p, <<>>) : p \in PrePool \ {<<>>}})

\* va and vb are 1 and 1.0 with prereleases; vc is not used.
InitPre ==
    /\ va \in PreVersionsA
    /\ vb \in PreVersionsB
    /\ vc = NilVersion
    /\ OrderIdle

\* The calls va.Compare(vb), vb.Compare(va), ... and va.Equal(vb),
\* vb.Equal(va).
CallCompare ==
    /\ ~cmp.done
    /\ cmp' = [done |-> TRUE,
               ab |-> Compare(va, vb), ba |-> Compare(vb, va),
               ac |-> Compare(va, vc), ca |-> Compare(vc, va),
               bc |-> Compare(vb, vc), cb |-> Compare(vc, vb),
               eqab |-> Equal(va, vb), eqba |-> Equal(vb, va)]
    /\ UNCHANGED <<text, lenient, strictIn, strict, va, vb, vc,
                   heap, recv, recv0, ret, call, cvars>>

NextOrder == CallCompare

SpecOrder == InitOrder /\ [][NextOrder]_vars
SpecPair == InitPair /\ [][NextOrder]_vars
SpecPre == InitPre /\ [][NextOrder]_vars

-----------------------------------------------------------------------------
(* The update machine: a version is parsed, then IncPart, its four         *)
(* shorthands, SetPrerelease and SetMetadata are called on it or on the    *)
(* version the last call returned.                                         *)

\* The number of calls after parsing.
MaxCalls == 2

\* The largest argument of IncPart.
MaxPartIndex == 3

\* The parts of the parsed version.
MaxUpdateParts == 2

UpdateTexts ==
    {pfx \o VersionText(b, p, m) :
        pfx \in {<<>>, <<"v">>}, b \in Bodies(MaxUpdateParts),
        p \in {<<>>, <<"a">>}, m \in {<<>>, <<"b">>}}
    \cup {MaxUint64Text,
          <<"v", "1", ".">> \o MaxUint64Text,
          MaxUint64Text \o <<".", "1", "-", "a">>,
          <<"0", ".">> \o MaxUint64Text \o <<".">> \o MaxUint64Text}

PrereleaseArgs == {<<>>, <<"a">>, <<"0", "1">>, <<"a", "+">>}
MetadataArgs == {<<>>, <<"b">>, <<"0", "1">>, <<"b", "_">>, <<"-">>}

\* No version returned yet.
NoVersion == [parts |-> 0, pre |-> <<>>, metadata |-> <<>>, original |-> <<>>]

InitUpdate ==
    /\ \E t \in UpdateTexts :
          LET r == NewVersion(t)
          IN  /\ r.err = "nil"
              /\ heap = New(<<>>, r.sv).heap
              /\ recv = New(<<>>, r.sv).ver
              /\ recv0 = r.sv
    /\ ret = NoVersion
    /\ call = [n |-> 0, op |-> "NewVersion", on |-> "recv", part |-> 0,
               arg |-> <<>>, before |-> NilVersion, err |-> "nil"]
    /\ text = Idle /\ lenient = Idle /\ strictIn = Idle /\ strict = Idle
    /\ va = Idle /\ vb = Idle /\ vc = Idle /\ cmp = Idle
    /\ NoConstraints

\* The versions a call can be made on.
Receivers == IF call.n > 0 THEN {"recv", "ret"} ELSE {"recv"}
Receiver(x) == IF x = "recv" THEN recv ELSE ret

\* The heap without the arrays that neither v1 nor v2 holds (the garbage
\* collector frees them), and v2 at its place in it.
Collect(h, v1, v2) ==
    IF v2.parts = v1.parts THEN [heap |-> <<h[v1.parts]>>, ver |-> v2]
    ELSE [heap |-> <<h[v1.parts], h[v2.parts]>>, ver |-> [v2 EXCEPT !.parts = 2]]

\* The call returned r.ver and left the heap r.heap.
Returned(x, op, part, arg, r, err) ==
    /\ heap' = Collect(r.heap, recv, r.ver).heap
    /\ ret' = Collect(r.heap, recv, r.ver).ver
    /\ call' = [n |-> call.n + 1, op |-> op, on |-> x, part |-> part, arg |-> arg,
                before |-> Deref(heap, Receiver(x)), err |-> err]
    /\ UNCHANGED <<text, lenient, strictIn, strict, va, vb, vc, cmp, recv, recv0, cvars>>

CallIncPart ==
    /\ call.n < MaxCalls
    /\ \E x \in Receivers, part \in 1..MaxPartIndex :
          Returned(x, "IncPart", part, <<>>, IncPart(heap, Receiver(x), part), "nil")

CallIncMajor ==
    /\ call.n < MaxCalls
    /\ \E x \in Receivers :
          Returned(x, "IncMajor", 1, <<>>, IncMajor(heap, Receiver(x)), "nil")

CallIncMinor ==
    /\ call.n < MaxCalls
    /\ \E x \in Receivers :
          Returned(x, "IncMinor", 2, <<>>, IncMinor(heap, Receiver(x)), "nil")

CallIncPatch ==
    /\ call.n < MaxCalls
    /\ \E x \in Receivers :
          Returned(x, "IncPatch", 3, <<>>, IncPatch(heap, Receiver(x)), "nil")

\* IncLast() panics on a version without parts (IncPart(0) writes
\* vNext.parts[-1]): the program ends there, the call returns nothing.
CallIncLast ==
    /\ call.n < MaxCalls
    /\ \E x \in Receivers :
          /\ Len(heap[Receiver(x).parts]) > 0
          /\ Returned(x, "IncLast", Len(heap[Receiver(x).parts]), <<>>,
                      IncLast(heap, Receiver(x)), "nil")

CallSetPrerelease ==
    /\ call.n < MaxCalls
    /\ \E x \in Receivers, s \in PrereleaseArgs :
          LET r == SetPrerelease(heap, Receiver(x), s)
          IN  Returned(x, "SetPrerelease", 0, s, r, r.err)

CallSetMetadata ==
    /\ call.n < MaxCalls
    /\ \E x \in Receivers, s \in MetadataArgs :
          LET r == SetMetadata(heap, Receiver(x), s)
          IN  Returned(x, "SetMetadata", 0, s, r, r.err)

NextUpdate ==
    \/ CallIncPart
    \/ CallIncMajor
    \/ CallIncMinor
    \/ CallIncPatch
    \/ CallIncLast
    \/ CallSetPrerelease
    \/ CallSetMetadata

SpecUpdate == InitUpdate /\ [][NextUpdate]_vars

\* The numbers given to NewVersionByParts: at most MaxUpdateParts of them.
ByPartsNumbers ==
    UNION {[1..k -> {U64Zero, U64Inc(U64Zero), U64Max}] : k \in 0..MaxUpdateParts}

\* The version is made by NewVersionByParts, then updated as above.
InitByParts ==
    /\ \E nums \in ByPartsNumbers :
          LET sv == NewVersionByParts(nums)
          IN  /\ heap = New(<<>>, sv).heap
              /\ recv = New(<<>>, sv).ver
              /\ recv0 = sv
    /\ ret = NoVersion
    /\ call = [n |-> 0, op |-> "NewVersionByParts", on |-> "recv", part |-> 0,
               arg |-> <<>>, before |-> NilVersion, err |-> "nil"]
    /\ text = Idle /\ lenient = Idle /\ strictIn = Idle /\ strict = Idle
    /\ va = Idle /\ vb = Idle /\ vc = Idle /\ cmp = Idle
    /\ NoConstraints

SpecByParts == InitByParts /\ [][NextUpdate]_vars

-----------------------------------------------------------------------------
(* The constraint machine: two constraint texts are given to               *)
(* NewConstraint, then Check is called on both results and Validate on     *)
(* the first, with one candidate version.                                  *)

\* The reference versions of the enumerated constraints have at most
\* MaxConParts numbers, the candidates at most MaxCandParts.
MaxConParts == 2
MaxCandParts == 2
CandDigits == {"0", "1", "2"}

\* The operators, each with the one that the second text has in its place:
\* the other spelling where there is one.
OpPairs ==
    { << <<>>, <<"=">> >>, << <<"!", "=">>, <<"!", "=">> >>,
      << <<">">>, <<">">> >>, << <<"<">>, <<"<">> >>,
      << <<">", "=">>, <<"=", ">">> >>, << <<"<", "=">>, <<"=", "<">> >>,
      << <<"~">>, <<"~", ">">> >>, << <<"^">>, <<"^">> >> }

\* Version patterns: numbers, and numbers (or nothing) before a wildcard.
Patterns ==
    Bodies(MaxConParts)
        \cup {b \o <<".", "x">> : b \in Bodies(MaxConParts)}
        \cup {<<"x">>, <<"*">>, <<"1", ".", "X">>}

\* What follows the numbers: nothing, a prerelease, metadata.
Suffixes == {<<>>, <<"-", "a">>, <<"+", "b">>}

\* Longer patterns and candidates, as in ^1.2.3 against 1.9.9 and 2.0.0,
\* and a pattern whose number has a leading zero.
EdgePatterns ==
    {<<"1", ".", "1", ".", "1">>, <<"0", ".", "1", ".", "1">>,
     <<"0", ".", "0", ".", "1">>, <<"0", "1">>}
EdgeCandidates ==
    {<<"1", ".", "1", ".", "2">>, <<"1", ".", "2", ".", "0">>,
     <<"1", ".", "1", ".", "0">>, <<"2", ".", "0", ".", "0">>,
     <<"0", ".", "1", ".", "2">>, <<"0", ".", "2", ".", "0">>,
     <<"0", ".", "0", ".", "2">>, <<"0", ".", "0", ".", "1">>,
     <<"1", ".", "1", ".", "1", ".", "1">>}

PatternTexts == {p \o s : p \in Patterns, s \in Suffixes} \cup EdgePatterns

Candidates ==
    Parsed({JoinDots(ps) \o s :
               ps \in UNION {[1..k -> CandDigits] : k \in 1..MaxCandParts},
               s \in Suffixes}
           \cup EdgeCandidates)

NotCalled == [err |-> "not called", constraints |-> <<>>]
NotChecked == [done |-> FALSE, ok |-> FALSE]
NotValidated == [done |-> FALSE, ok |-> FALSE, e |-> <<>>]

ConstraintsStart ==
    /\ cons = NotCalled /\ cons2 = NotCalled
    /\ checked = NotChecked /\ checked2 = NotChecked
    /\ validated = NotValidated
    /\ text = Idle /\ lenient = Idle /\ strictIn = Idle /\ strict = Idle
    /\ va = Idle /\ vb = Idle /\ vc = Idle /\ cmp = Idle
    /\ heap = Idle /\ recv = Idle /\ recv0 = Idle /\ ret = Idle /\ call = Idle

\* One constraint, spelled in two ways.
InitConstraint ==
    /\ \E o \in OpPairs, p \in PatternTexts :
          /\ ctext = o[1] \o p
          /\ ctext2 = o[2] \o p
    /\ cand \in Candidates
    /\ ConstraintsStart

\* cons, err := NewConstraint(ctext), then the same for ctext2
CallNewConstraint ==
    /\ \/ /\ cons = NotCalled
          /\ cons' = NewConstraint(ctext)
          /\ UNCHANGED cons2
       \/ /\ cons # NotCalled /\ cons2 = NotCalled
          /\ cons2' = NewConstraint(ctext2)
          /\ UNCHANGED cons
    /\ UNCHANGED <<ctext, ctext2, cand, checked, checked2, validated, vvars>>

\* cons.Check(cand), then cons2.Check(cand), each when there is no error
CallCheck ==
    /\ cons2 # NotCalled
    /\ \/ /\ cons.err = "nil" /\ ~checked.done
          /\ checked' = [done |-> TRUE, ok |-> Check(cons.constraints, cand)]
          /\ UNCHANGED checked2
       \/ /\ cons.err = "nil" => checked.done
          /\ cons2.err = "nil" /\ ~checked2.done
          /\ checked2' = [done |-> TRUE, ok |-> Check(cons2.constraints, cand)]
          /\ UNCHANGED checked
    /\ UNCHANGED <<ctext, ctext2, cand, cons, cons2, validated, vvars>>

\* cons.Validate(cand)
CallValidate ==
    /\ cons.err = "nil" /\ checked.done /\ ~validated.done
    /\ LET r == Validate(cons.constraints, cand)
       IN  validated' = [done |-> TRUE, ok |-> r.ok, e |-> r.e]
    /\ UNCHANGED <<ctext, ctext2, cand, cons, cons2, checked, checked2, vvars>>

NextConstraint == CallNewConstraint \/ CallCheck \/ CallValidate

SpecConstraint == InitConstraint /\ [][NextConstraint]_vars

\* Sets of constraints: at most MaxGroups OR-groups of one or two
\* constraints each, written with ", " and " || ".
MaxGroups == 2
SetTokens == {<<">", "=", "1">>, <<"<", "2">>, <<"!", "=", "1", ".", "1">>}
SetGroups ==
    {<<t>> : t \in SetTokens}
        \cup UNION {{<<t, u>> : u \in SetTokens \ {t}} : t \in SetTokens}
SetCandidates ==
    Parsed({<<"0", ".", "1">>, <<"1">>, <<"1", ".", "1">>, <<"2">>,
            <<"0", ".", "2">>, <<"1", ".", "1", "-", "a">>})

\* The texts of a sequence of tokens, joined by sep.
RECURSIVE Join(_, _)
Join(ts, sep) ==
    IF ts = <<>> THEN <<>>
    ELSE IF Len(ts) = 1 THEN ts[1]
    ELSE ts[1] \o sep \o Join(Tail(ts), sep)

SetText(groups) ==
    Join([g \in 1..Len(groups) |-> Join(groups[g], <<",", " ">>)],
         <<" ", "|", "|", " ">>)

Reverse(q) == [i \in 1..Len(q) |-> q[Len(q) + 1 - i]]

\* The rearrangements that make all the others: the groups rotated, the
\* first group moved to the end after the others were reversed, the
\* constraints reversed inside every group.
Rearranged(groups) ==
    {Tail(groups) \o <<Head(groups)>>,
     Reverse(Tail(groups)) \o <<Head(groups)>>,
     [g \in 1..Len(groups) |-> Reverse(groups[g])]}

\* A set of constraints and the same set in another order.
InitSet ==
    /\ \E groups \in UNION {[1..n -> SetGroups] : n \in 1..MaxGroups} :
          /\ ctext = SetText(groups)
          /\ ctext2 \in {SetText(r) : r \in Rearranged(groups)}
    /\ cand \in SetCandidates
    /\ ConstraintsStart

SpecSet == InitSet /\ [][NextConstraint]_vars

\* Sets whose constraints fail together: two constraints of a group on one
\* version, and a reference with a prerelease next to references without.
ValidateTokens ==
    {<<"<", "1", ".", "1">>, <<"!", "=", "1", ".", "1">>,
     <<">", "1", ".", "1", "-", "a">>}
ValidateGroups ==
    {<<t>> : t \in ValidateTokens}
        \cup UNION {{<<t, u>> : u \in ValidateTokens \ {t}} : t \in ValidateTokens}
ValidateCandidates ==
    Parsed({<<"1">>, <<"1", ".", "1">>, <<"2">>, <<"1", ".", "1", "-", "a">>,
            <<"1", ".", "1", "-", "b">>, <<"1", ".", "1", ".", "0">>})

\* A set of constraints, written twice, to be validated.
InitValidate ==
    /\ \E groups \in UNION {[1..n -> ValidateGroups] : n \in 1..MaxGroups} :
          /\ ctext = SetText(groups)
          /\ ctext2 = ctext
    /\ cand \in ValidateCandidates
    /\ ConstraintsStart

SpecValidate == InitValidate /\ [][NextConstraint]_vars

\* Ranges: the texts on the two sides of " - ", all of them version texts,
\* and the versions that are checked.
RangeTexts ==
    {t \in {b \o x : b \in Bodies(MaxConParts), x \in {<<>>, <<"-", "a">>}}
            \cup {<<"v", "1">>, <<"1", "+", "b">>, <<"1", ".", "1", ".", "1">>,
                  <<"v", "1", ".", "0", "-", "a", "+", "b">>,
                  <<" ", "1">>, <<"1", " ">>, <<"1", "-", "a", "-">>} :
        NewVersion(t).err = "nil"}
RangeCandidates ==
    Parsed({<<"0">>, <<"1">>, <<"1", ".", "1">>, <<"0", ".", "1">>,
            <<"1", ".", "0", ".", "1">>, <<"2">>,
            <<"1", "-", "a">>, <<"1", ".", "1", "-", "a">>,
            <<"0", "-", "a">>, <<"1", "-", "b">>})

\* A range A - B, and the two comparators that it stands for.
InitRange ==
    /\ \E a \in RangeTexts, b \in RangeTexts :
          /\ ctext = a \o <<" ", "-", " ">> \o b
          /\ ctext2 = <<">", "=">> \o a \o <<",", " ", "<", "=">> \o b
    /\ cand \in RangeCandidates
    /\ ConstraintsStart

SpecRange == InitRange /\ [][NextConstraint]_vars

-----------------------------------------------------------------------------
(* Properties of parsing *)

\* What the grammar calls the parts of a text, stated on the text alone: the
\* numeric body ends before the first "-" or "+"; a prerelease follows when
\* that character is "-" and ends before the first "+"; the metadata is
\* what follows the first "+".
FirstMark(t) ==
    IF \E i \in 1..Len(t) : t[i] \in {"-", "+"}
    THEN CHOOSE i \in 1..Len(t) :
            t[i] \in {"-", "+"} /\ \A j \in 1..(i - 1) : t[j] \notin {"-", "+"}
    ELSE 0

BodyOf(t) == IF FirstMark(t) = 0 THEN t ELSE SubSeq(t, 1, FirstMark(t) - 1)

PrereleaseOf(t) ==
    IF FirstMark(t) = 0 \/ t[FirstMark(t)] = "+" THEN <<>>
    ELSE LET rest == SubSeq(t, FirstMark(t) + 1, Len(t))
         IN  IF Index(rest, "+") = 0 THEN rest
             ELSE SubSeq(rest, 1, Index(rest, "+") - 1)

MetadataOf(t) ==
    IF Index(t, "+") = 0 THEN <<>> ELSE SubSeq(t, Index(t, "+") + 1, Len(t))

AllDigits(s) == s # <<>> /\ \A i \in 1..Len(s) : s[i] \in num
LeadingZero(s) == Len(s) > 1 /\ s[1] = "0"
Identifier(s) == s # <<>> /\ \A i \in 1..Len(s) : s[i] \in allowed

\* A digit string without leading zero that is at most 2^64 - 1.
FitsUint64(s) ==
    \/ Len(s) < Len(MaxUint64Text)
    \/ Len(s) = Len(MaxUint64Text) /\ ~StrLess(MaxUint64Text, s)

ValidBody(t) ==
    \A i \in 1..Len(Split(BodyOf(t), ".")) :
        LET seg == Split(BodyOf(t), ".")[i]
        IN  AllDigits(seg) /\ ~LeadingZero(seg) /\ FitsUint64(seg)

Called(r) == r # Pending
OneVRemoved(t) == IF t # <<>> /\ t[1] = "v" THEN SubSeq(t, 2, Len(t)) ELSE t

\* C1: every text that NewVersion accepts, with or without a leading "v",
\* is returned unchanged by Original() of the parsed version.
C1_RoundTrip ==
    (Called(lenient) /\ lenient.err = "nil") => Original(lenient.sv) = text

\* C1 witness: a text with a leading "v", a prerelease and metadata was
\* accepted by NewVersion.
C1_Witness ==
    /\ Called(lenient) /\ lenient.err = "nil"
    /\ HasPrefix(text, "v")
    /\ lenient.sv.pre # <<>> /\ lenient.sv.metadata # <<>>

\* C7 (as stated): a text whose numeric segments are all digits and one of
\* which has a leading zero fails with ErrSegmentStartsZero; so does a text
\* with a valid body and an all-digit prerelease identifier with a leading
\* zero; a text with a valid body, valid prerelease identifiers (a hyphen
\* makes "0-1" no number) and metadata identifiers over the allowed
\* characters, all-digit with leading zero included, is accepted.
C7_LeadingZeroRejection ==
    Called(strict) =>
    LET segs == Split(BodyOf(strictIn), ".")
        pres == Split(PrereleaseOf(strictIn), ".")
        mds  == Split(MetadataOf(strictIn), ".")
    IN  /\ ( /\ \A i \in 1..Len(segs) : AllDigits(segs[i])
             /\ \E i \in 1..Len(segs) : LeadingZero(segs[i]) )
            => strict.err = "ErrSegmentStartsZero"
        /\ ( /\ ValidBody(strictIn)
             /\ \E i \in 1..Len(pres) : AllDigits(pres[i]) /\ LeadingZero(pres[i]) )
            => strict.err = "ErrSegmentStartsZero"
        /\ ( /\ ValidBody(strictIn)
             /\ PrereleaseOf(strictIn) # <<>> =>
                    \A i \in 1..Len(pres) :
                        Identifier(pres[i]) /\ ~(AllDigits(pres[i]) /\ LeadingZero(pres[i]))
             /\ MetadataOf(strictIn) # <<>> =>
                    \A i \in 1..Len(mds) : Identifier(mds[i]) )
            => strict.err = "nil"

\* C8: NewVersion(T) succeeds exactly when StrictNewVersion succeeds on T
\* without one leading "v", and then with the same parts, prerelease and
\* metadata; StrictNewVersion rejects a text that starts with "v", and
\* NewVersion one that starts with "vv".
C8_LenientVersusStrict ==
    /\ (Called(lenient) /\ Called(strict) /\ strictIn = OneVRemoved(text)) =>
          /\ (lenient.err = "nil") <=> (strict.err = "nil")
          /\ lenient.err = "nil" =>
                /\ lenient.sv.parts = strict.sv.parts
                /\ lenient.sv.pre = strict.sv.pre
                /\ lenient.sv.metadata = strict.sv.metadata
    /\ (Called(strict) /\ strictIn # <<>> /\ strictIn[1] = "v") => strict.err # "nil"
    /\ (Called(lenient) /\ Len(text) >= 2 /\ text[1] = "v" /\ text[2] = "v") =>
          lenient.err # "nil"

\* C8 witness: a text with a leading "v" was accepted by NewVersion, and
\* StrictNewVersion accepted it without the "v".
C8_Witness ==
    /\ Called(lenient) /\ Called(strict)
    /\ HasPrefix(text, "v") /\ strictIn = Tail(text)
    /\ lenient.err = "nil" /\ strict.err = "nil"
    /\ Len(lenient.sv.parts) > 1

-----------------------------------------------------------------------------
(* Properties of the order *)

Sign == {-1, 0, 1}

\* The parts without their trailing zeros: equal for two versions exactly
\* when their zero-padded parts are equal.
RECURSIVE StripZeros(_)
StripZeros(parts) ==
    IF parts # <<>> /\ parts[Len(parts)] = U64Zero
    THEN StripZeros(SubSeq(parts, 1, Len(parts) - 1))
    ELSE parts

SameNumbers(v, o) == StripZeros(v.parts) = StripZeros(o.parts)

\* The identifier at position k of a list, empty beyond its end.
IdAt(ids, k) == IF k <= Len(ids) THEN ids[k] ELSE <<>>

\* The first position where two identifier lists differ, 0 if none.
FirstDifference(sp, op) ==
    LET n == IF Len(sp) > Len(op) THEN Len(sp) ELSE Len(op)
    IN  IF \E k \in 1..n : IdAt(sp, k) # IdAt(op, k)
        THEN CHOOSE k \in 1..n :
                /\ IdAt(sp, k) # IdAt(op, k)
                /\ \A j \in 1..(k - 1) : IdAt(sp, j) = IdAt(op, j)
        ELSE 0

\* x < y for two decimal numbers written without leading zeros.
DecimalLess(x, y) == Len(x) < Len(y) \/ (Len(x) = Len(y) /\ StrLess(x, y))

\* C2: Compare is a total order: every result is -1, 0 or 1, swapping the
\* operands negates the result, and a <= b with b <= c gives a <= c.
C2_TotalOrder ==
    cmp.done =>
        /\ {cmp.ab, cmp.ba, cmp.ac, cmp.ca, cmp.bc, cmp.cb} \subseteq Sign
        /\ cmp.ab = -cmp.ba /\ cmp.ac = -cmp.ca /\ cmp.bc = -cmp.cb
        /\ (cmp.ab <= 0 /\ cmp.bc <= 0) => cmp.ac <= 0

\* C2 witness: three prereleases of the same numbers in strictly ascending
\* order, a numeric identifier below an alphanumeric one.
C2_Witness ==
    /\ cmp.done
    /\ SameNumbers(va, vb) /\ SameNumbers(vb, vc)
    /\ va.pre = <<"1">> /\ vb.pre = <<"a">> /\ vc.pre # <<>>
    /\ cmp.ab = -1 /\ cmp.bc = -1 /\ cmp.ac = -1

\* C3: Part(i) is 0 beyond the last part, and two versions with the same
\* prerelease whose parts differ only by trailing zeros compare 0 and are
\* Equal, in both directions.
C3_ZeroPadding ==
    cmp.done =>
        /\ \A i \in 1..MaxParts : Part(va, PartsNumber(va) + i) = U64Zero
        /\ (va.pre = vb.pre /\ SameNumbers(va, vb)) =>
              (cmp.ab = 0 /\ cmp.ba = 0 /\ cmp.eqab /\ cmp.eqba)

\* C3 witness: one part against three, the same prerelease, compared.
C3_Witness ==
    /\ cmp.done
    /\ PartsNumber(va) = 1 /\ PartsNumber(vb) = 3
    /\ SameNumbers(va, vb)
    /\ va.pre = vb.pre /\ va.pre # <<>>

\* C4: with equal zero-padded parts, the one version that has a prerelease
\* is the lesser, two releases compare 0, and the result does not depend on
\* the metadata of either version.
C4_ReleaseAboveMetadataIgnored ==
    (cmp.done /\ SameNumbers(va, vb)) =>
        /\ (va.pre # <<>> /\ vb.pre = <<>>) => (cmp.ab = -1 /\ cmp.ba = 1)
        /\ (va.pre = <<>> /\ vb.pre # <<>>) => (cmp.ab = 1 /\ cmp.ba = -1)
        /\ (va.pre = <<>> /\ vb.pre = <<>>) => (cmp.ab = 0 /\ cmp.eqab)
        /\ cmp.cb = cmp.ab /\ cmp.bc = cmp.ba
        /\ cmp.eqab <=> (cmp.cb = 0)

\* C4 witness: a prerelease against a release of the same numbers written
\* with another number of parts, all three metadata different.
C4_Witness ==
    /\ cmp.done /\ SameNumbers(va, vb)
    /\ PartsNumber(va) # PartsNumber(vb)
    /\ va.pre # <<>> /\ vb.pre = <<>>
    /\ va.metadata # vb.metadata /\ vc.metadata # va.metadata
    /\ vc.metadata # vb.metadata

\* C5 (as stated): when both versions have prereleases and equal numbers,
\* the first position where the identifiers differ, both non-empty,
\* decides: two unsigned decimal integers by their value, an integer below
\* a non-integer, two non-integers by string comparison.
C5_IdentifierOrder ==
    (cmp.done /\ SameNumbers(va, vb) /\ va.pre # <<>> /\ vb.pre # <<>>) =>
    LET sp == Split(va.pre, ".")
        op == Split(vb.pre, ".")
        k  == FirstDifference(sp, op)
        s  == IdAt(sp, k)
        o  == IdAt(op, k)
    IN  (k # 0 /\ s # <<>> /\ o # <<>>) =>
            cmp.ab = IF AllDigits(s) /\ AllDigits(o)
                        THEN (IF DecimalLess(s, o) THEN -1 ELSE 1)
                     ELSE IF AllDigits(s) THEN -1
                     ELSE IF AllDigits(o) THEN 1
                     ELSE IF StrLess(s, o) THEN -1 ELSE 1

\* C6 (as stated): when the identifier list of a is a proper prefix of the
\* identifier list of b and the numbers are equal, Compare(a, b) = -1 and
\* Compare(b, a) = 1.
C6_PrefixIsLess ==
    (cmp.done /\ SameNumbers(va, vb) /\ va.pre # <<>> /\ vb.pre # <<>>) =>
    LET sp == Split(va.pre, ".")
        op == Split(vb.pre, ".")
    IN  (Len(sp) < Len(op) /\ SubSeq(op, 1, Len(sp)) = sp) =>
            (cmp.ab = -1 /\ cmp.ba = 1)

-----------------------------------------------------------------------------
(* Properties of the update operations *)

\* y = x + 1 as numbers: the limbs of x that are full become 0 in y, the
\* next one is one more, the others are the same.  No y is the largest
\* uint64 plus 1.
PlusOne(x, y) ==
    \E i \in 1..NumLimbs :
        /\ \A j \in 1..(i - 1) : x[j] = LimbBase - 1 /\ y[j] = 0
        /\ y[i] = x[i] + 1
        /\ \A j \in (i + 1)..NumLimbs : y[j] = x[j]

\* t is the parts in decimal, without leading zeros, joined by dots.
IsDotted(t, parts) ==
    LET segs == Split(t, ".")
    IN  /\ Len(segs) = Len(parts)
        /\ \A k \in 1..Len(segs) :
              /\ AllDigits(segs[k]) /\ ~LeadingZero(segs[k])
              /\ ParseUint(segs[k]) = [ok |-> TRUE, val |-> parts[k]]

\* C9 (as stated): IncPart(i), i >= 1, on n >= 1 parts returns max(n, i)
\* parts and neither prerelease nor metadata; for i < n part i is one more,
\* the parts after it are 0 and those before it unchanged; for i >= n, after
\* zero-padding to i parts, all parts but the last are unchanged and the
\* last is one more without a prerelease, unchanged with one; the original
\* is the dotted parts, after a "v" exactly when the receiver's had one.
C9_IncPart ==
    call.op = "IncPart" =>
    LET i == call.part
        b == call.before
        r == Deref(heap, ret)
        n == Len(b.parts)
        m == IF n > i THEN n ELSE i
        padded == [k \in 1..m |-> IF k <= n THEN b.parts[k] ELSE U64Zero]
    IN  /\ Len(r.parts) = m /\ r.pre = <<>> /\ r.metadata = <<>>
        /\ i < n =>
              /\ PlusOne(b.parts[i], r.parts[i])
              /\ \A k \in (i + 1)..n : r.parts[k] = U64Zero
              /\ \A k \in 1..(i - 1) : r.parts[k] = b.parts[k]
        /\ i >= n =>
              /\ \A k \in 1..(m - 1) : r.parts[k] = padded[k]
              /\ b.pre = <<>> => PlusOne(padded[m], r.parts[m])
              /\ b.pre # <<>> => r.parts[m] = padded[m]
        /\ IF HasPrefix(b.original, "v")
           THEN HasPrefix(r.original, "v") /\ IsDotted(Tail(r.original), r.parts)
           ELSE IsDotted(r.original, r.parts)

\* C10: whatever is called, the version the calls are made on keeps its
\* parts, prerelease, metadata and original, and no returned version
\* shares its parts array, so that writing to the one does not show in the
\* other.
C10_ReceiverUnchanged ==
    /\ Deref(heap, recv) = recv0
    /\ call.n > 0 =>
          /\ ret.parts # recv.parts
          /\ call.on = "recv" => call.before = recv0

\* C10 witness: after two calls or more, the last on the parsed version, an
\* IncPart of an existing part, the returned version differs from it in
\* its parts.
C10_Witness ==
    /\ call.n >= 2 /\ call.on = "recv" /\ call.op = "IncPart"
    /\ call.part <= Len(recv0.parts)
    /\ Deref(heap, ret).parts # recv0.parts
    /\ recv0.pre # <<>> /\ recv0.metadata # <<>>

\* The text after the numbers of an original: "-" and the prerelease, "+" and
\* the metadata, each when there is one.
Suffix(r) ==
    (IF r.pre # <<>> THEN <<"-">> \o r.pre ELSE <<>>)
        \o (IF r.metadata # <<>> THEN <<"+">> \o r.metadata ELSE <<>>)

\* r.original is written anew from r's fields: the dotted parts and the
\* suffix, after a "v" exactly when b's original had one.
IsRegenerated(r, b) ==
    LET hasV == HasPrefix(b.original, "v")
        t    == IF hasV /\ r.original # <<>> THEN Tail(r.original) ELSE r.original
        n    == Len(t) - Len(Suffix(r))
    IN  /\ hasV = HasPrefix(r.original, "v")
        /\ n >= 0
        /\ SubSeq(t, n + 1, Len(t)) = Suffix(r)
        /\ IsDotted(SubSeq(t, 1, n), r.parts)

\* The last call was SetPrerelease or SetMetadata.
IsSet == call.op \in {"SetPrerelease", "SetMetadata"}

\* The argument of the last Set* call did not pass the validation.
SetRejected ==
    /\ call.arg # <<>>
    /\ IF call.op = "SetPrerelease" THEN validatePrerelease(call.arg) # "nil"
       ELSE validateMetadata(call.arg) # "nil"

\* After a Set* call that passed the validation: nil error, the field is
\* the argument, the rest is the receiver's, the original is regenerated.
SetAccepted ==
    LET b == call.before
        r == Deref(heap, ret)
    IN  /\ call.err = "nil"
        /\ r.parts = b.parts
        /\ IF call.op = "SetPrerelease"
           THEN r.pre = call.arg /\ r.metadata = b.metadata
           ELSE r.metadata = call.arg /\ r.pre = b.pre
        /\ IsRegenerated(r, b)

\* C11 (as stated): SetPrerelease(s) and SetMetadata(s) with a non-empty s
\* that fails validation return ErrInvalidPrerelease, respectively
\* ErrInvalidMetadata, and a version equal to the receiver in parts,
\* prerelease, metadata and original; otherwise a nil error and a version
\* whose field is s and whose original is regenerated.
C11_SetErrors ==
    IsSet =>
        IF SetRejected
        THEN /\ call.err = IF call.op = "SetPrerelease" THEN "ErrInvalidPrerelease"
                           ELSE "ErrInvalidMetadata"
             /\ Deref(heap, ret) = call.before
        ELSE SetAccepted

\* C11 (amended): as stated, but the error of a rejected prerelease is
\* ErrSegmentStartsZero when an all-digit identifier with a leading zero
\* made it fail, and ErrInvalidPrerelease when an identifier with a
\* character outside [0-9A-Za-z-] did.
C11_SetErrorsAmended ==
    IsSet =>
        IF SetRejected
        THEN LET ids == Split(call.arg, ".")
             IN  /\ Deref(heap, ret) = call.before
                 /\ call.op = "SetMetadata" => call.err = "ErrInvalidMetadata"
                 /\ call.op = "SetPrerelease" =>
                       \/ /\ call.err = "ErrSegmentStartsZero"
                          /\ \E k \in 1..Len(ids) :
                                AllDigits(ids[k]) /\ LeadingZero(ids[k])
                       \/ /\ call.err = "ErrInvalidPrerelease"
                          /\ \E k \in 1..Len(ids) : ~containsOnly(ids[k], allowed)
        ELSE SetAccepted

\* C11 witness: SetPrerelease("01") on a version with a "v", a prerelease
\* and metadata returned ErrSegmentStartsZero.
C11_Witness ==
    /\ call.op = "SetPrerelease" /\ call.arg = <<"0", "1">>
    /\ call.err = "ErrSegmentStartsZero"
    /\ HasPrefix(call.before.original, "v")
    /\ call.before.pre # <<>> /\ call.before.metadata # <<>>

-----------------------------------------------------------------------------
(* Properties of constraints *)

\* The constraints of cs in group g all pass for v, each checked alone.
GroupPasses(cs, g, v) == \A k \in 1..Len(cs[g]) : check(cs[g][k], v).ok

\* The constraints of a set as a bag of bags: what a rearrangement keeps.
GroupBag(g) == {<<c, Cardinality({k \in 1..Len(g) : g[k] = c})>> : c \in Range(g)}
SetBag(cs) ==
    LET bags == [g \in 1..Len(cs) |-> GroupBag(cs[g])]
    IN  {<<b, Cardinality({g \in 1..Len(cs) : bags[g] = b})>> : b \in Range(bags)}

\* C12: Check(v) is true exactly when some OR-group has all its
\* constraints pass for v, and the same set of constraints written in
\* another order of groups and of constraints gives the same result.
C12_CheckIsAnyGroupAll ==
    /\ checked.done =>
          checked.ok = (\E g \in 1..Len(cons.constraints) :
                           GroupPasses(cons.constraints, g, cand))
    /\ (checked.done /\ checked2.done) =>
          /\ SetBag(cons.constraints) = SetBag(cons2.constraints)
          /\ checked.ok = checked2.ok

\* C12 witness: two groups of two constraints each, the first group fails
\* on its second constraint, the second passes, and the other text has
\* the constraints in another order.
C12_Witness ==
    /\ checked.done /\ checked2.done /\ checked.ok
    /\ Len(cons.constraints) = 2
    /\ Len(cons.constraints[1]) = 2 /\ Len(cons.constraints[2]) = 2
    /\ check(cons.constraints[1][1], cand).ok
    /\ ~check(cons.constraints[1][2], cand).ok
    /\ cons.constraints # cons2.constraints

\* The one constraint of the first text and of the second, their reference
\* versions, and whether the candidate is a release.
TheCon == cons.constraints[1][1]
TheCon2 == cons2.constraints[1][1]
Ref == TheCon.con
Release == cand.pre = <<>>

\* The number of leading zero parts.
LeadingZeros(parts) ==
    CHOOSE z \in 0..Len(parts) :
        /\ \A i \in 1..z : parts[i] = U64Zero
        /\ z < Len(parts) => parts[z + 1] # U64Zero

\* The zero-padded parts of v and ref are the same at the indices 1..n.
SameUpTo(v, ref, n) == \A i \in 1..n : Part(v, i) = Part(ref, i)

\* C13 (as stated): ^ref on a release v, z being the number of leading zero
\* parts of ref: fails for every v when all parts of ref are zero, and
\* otherwise passes exactly when v >= ref and the parts of v at 1..z+1 are
\* those of ref.
C13_Caret ==
    (checked.done /\ TheCon.origfunc = <<"^">> /\ Release) =>
        LET z == LeadingZeros(Ref.parts)
        IN  IF z = Len(Ref.parts) THEN ~checked.ok
            ELSE checked.ok = (Compare(cand, Ref) >= 0 /\ SameUpTo(cand, Ref, z + 1))

\* The index before which the tilde rule compares: the wildcard index, or
\* the number of parts written in the reference.
TildeBoundary(c) == IF c.dirtyPart > 0 THEN c.dirtyPart ELSE Len(c.con.parts)

EqualRule(v, c) ==
    IF c.dirtyPart = 0 THEN Compare(v, c.con) = 0
    ELSE constraintTilde(v, c).ok

C16_NotEqualWildcard ==
    (/\ checked.done /\ TheCon.origfunc = <<"!", "=">>
     /\ TheCon.dirtyPart > 0 /\ Ref.pre = <<>> /\ Release) =>
        checked.ok = ~SameUpTo(cand, Ref, TheCon.dirtyPart - 1)

\* C17: != without wildcard passes exactly when Compare(v, ref) is not 0,
\* whichever of the two has a prerelease.
C17_NotEqual ==
    (checked.done /\ TheCon.origfunc = <<"!", "=">> /\ TheCon.dirtyPart = 0) =>
        checked.ok = (Compare(cand, Ref) # 0)

\* C17 witness: != with a release reference passed for a prerelease.
C17_Witness ==
    /\ checked.done /\ checked.ok
    /\ TheCon.origfunc = <<"!", "=">> /\ TheCon.dirtyPart = 0
    /\ ~Release /\ Ref.pre = <<>>

\* What an ordered comparator asks of Compare(v, ref).
Ordered(op, d) ==
    CASE op = <<">">> -> d = 1
      [] op = <<"<">> -> d = -1
      [] op \in {<<">", "=">>, <<"=", ">">>} -> d >= 0
      [] op \in {<<"<", "=">>, <<"=", "<">>} -> d <= 0

OrderedOps ==
    {<<">">>, <<"<">>, <<">", "=">>, <<"=", ">">>, <<"<", "=">>, <<"=", "<">>}

\* C18: >, <, >= (=>) and <= (=<) without wildcard pass exactly when v is
\* not a prerelease against a release reference and Compare(v, ref) is 1,
\* -1, at least 0, at most 0; the two spellings give the same result.
C18_OrderedComparators ==
    /\ (checked.done /\ TheCon.origfunc \in OrderedOps /\ TheCon.dirtyPart = 0) =>
          checked.ok = /\ ~(~Release /\ Ref.pre = <<>>)
                       /\ Ordered(TheCon.origfunc, Compare(cand, Ref))
    /\ (checked2.done /\ TheCon2.origfunc \in OrderedOps /\ TheCon2.dirtyPart = 0) =>
          /\ checked2.ok = /\ ~(~Release /\ TheCon2.con.pre = <<>>)
                           /\ Ordered(TheCon2.origfunc, Compare(cand, TheCon2.con))
          /\ checked.done => checked2.ok = checked.ok

\* C18 witness: >= and => passed for a prerelease equal to the reference.
C18_Witness ==
    /\ checked.done /\ checked2.done /\ checked.ok /\ checked2.ok
    /\ TheCon.origfunc = <<">", "=">> /\ TheCon2.origfunc = <<"=", ">">>
    /\ ~Release /\ Compare(cand, Ref) = 0

\* C20 (as stated): a constraint of the equal family written with metadata
\* and without wildcard passes only for versions that compare equal to the
\* reference and have the metadata of the constraint.
C20_MetadataEquality ==
    /\ (/\ checked.done /\ TheCon.origfunc = <<>> /\ TheCon.dirtyPart = 0
        /\ Ref.metadata # <<>> /\ checked.ok) =>
          Compare(cand, Ref) = 0 /\ cand.metadata = Ref.metadata
    /\ (/\ checked2.done /\ TheCon2.origfunc = <<"=">> /\ TheCon2.dirtyPart = 0
        /\ TheCon2.con.metadata # <<>> /\ checked2.ok) =>
          Compare(cand, TheCon2.con) = 0 /\ cand.metadata = TheCon2.con.metadata

\* C19: NewConstraint("A - B") and NewConstraint(">=A, <=B") return the
\* same error, and when that is nil the same Check(v) for every v.
C19_RangeRewrite ==
    /\ (cons # NotCalled /\ cons2 # NotCalled) => cons.err = cons2.err
    /\ (checked.done /\ checked2.done) => checked.ok = checked2.ok

\* C19 witness: a range with two different ends was checked in both
\* spellings and passed for the version at its upper end.
C19_Witness ==
    /\ checked.done /\ checked2.done /\ checked.ok
    /\ Len(cons.constraints) = 1 /\ Len(cons.constraints[1]) = 2
    /\ cons.constraints[1][1].origfunc = <<">", "=">>
    /\ cons.constraints[1][2].origfunc = <<"<", "=">>
    /\ Compare(cons.constraints[1][1].con, cons.constraints[1][2].con) = -1
    /\ Compare(cand, cons.constraints[1][2].con) = 0

\* The candidate has a prerelease and the reference of c has none.
WantsRelease(c) == cand.pre # <<>> /\ c.con.pre = <<>>

C22_ValidateAgreesWithCheck ==
    validated.done => validated.ok = checked.ok

\* The match-all constraint: reference parts [0], no operator, wildcard
\* index 1.
IsMatchAll(c) ==
    c.con.parts = <<U64Zero>> /\ c.origfunc = <<>> /\ c.dirtyPart = 1

\* C23 (as stated): the constraint made from "*" and the one made from an
\* empty token are match-all constraints and pass for every version,
\* prereleases included.
C23_MatchAll ==
    /\ (checked.done /\ ctext \in {<<"*">>, <<"x">>}) =>
          IsMatchAll(TheCon) /\ checked.ok
    /\ checked.done =>
          /\ parseConstraint(<<>>).err = "nil"
          /\ IsMatchAll(parseConstraint(<<>>).c)
          /\ check(parseConstraint(<<>>).c, cand).ok

\* The elements of a sequence of sequences, in order.
RECURSIVE Flatten(_)
Flatten(qs) == IF qs = <<>> THEN <<>> ELSE Head(qs) \o Flatten(Tail(qs))

\* What one constraint adds to the list: the release-only diagnostic for a
\* prerelease against a reference without one, else the error of its check.
Diagnostic(c, v) ==
    IF v.pre # <<>> /\ c.con.pre = <<>> THEN <<ReleaseOnly>>
    ELSE IF check(c, v).ok THEN <<>> ELSE <<check(c, v).err>>

\* q without the release-only diagnostics that follow the first.
RECURSIVE OnlyOnce(_, _)
OnlyOnce(q, seen) ==
    IF q = <<>> THEN <<>>
    ELSE IF Head(q) # ReleaseOnly THEN <<Head(q)>> \o OnlyOnce(Tail(q), seen)
    ELSE IF seen THEN OnlyOnce(Tail(q), TRUE)
    ELSE <<Head(q)>> \o OnlyOnce(Tail(q), TRUE)

Diagnostics(cs, v) ==
    OnlyOnce(Flatten([g \in 1..Len(cs) |->
                 Flatten([k \in 1..Len(cs[g]) |-> Diagnostic(cs[g][k], v)])]),
             FALSE)

\* C27: the list of Validate is empty with true; with false it is, in the
\* order of the groups, the error of every failing constraint of every
\* group, the release-only diagnostic being there once at most.
C27_ValidateDiagnostics ==
    validated.done =>
        IF validated.ok THEN validated.e = <<>>
        ELSE validated.e = Diagnostics(cons.constraints, cand)

\* C27 witness: Validate returned false with the errors of two constraints
\* of one group.
C27_Witness ==
    /\ validated.done /\ ~validated.ok
    /\ \E g \in 1..Len(cons.constraints) :
          /\ Len(cons.constraints[g]) = 2
          /\ Diagnostic(cons.constraints[g][1], cand) # <<>>
          /\ Diagnostic(cons.constraints[g][2], cand) # <<>>
          /\ Diagnostic(cons.constraints[g][1], cand) # <<ReleaseOnly>>
          /\ Diagnostic(cons.constraints[g][2], cand) # <<ReleaseOnly>>
    /\ Len(validated.e) >= 2

ParserError == "constraint Parser Error"

\* C28 (as stated): NewConstraint never returns "constraint Parser Error",
\* and neither does parseConstraint for the text it was given.
C28_ParserErrorUnreachable ==
    /\ cons # NotCalled =>
          cons.err # ParserError /\ parseConstraint(ctext).err # ParserError
    /\ cons2 # NotCalled =>
          cons2.err # ParserError /\ parseConstraint(ctext2).err # ParserError

\* C24 (as stated): an accepted text has the prerelease that follows its
\* first "-" before any "+" and the metadata that follows its first "+";
\* a valid body, "+" and valid metadata with a hyphen in it is accepted
\* with an empty prerelease and that metadata.
C24_PrereleaseMetadataSplit ==
    Called(strict) =>
        /\ strict.err = "nil" =>
              /\ strict.sv.pre = PrereleaseOf(strictIn)
              /\ strict.sv.metadata = MetadataOf(strictIn)
        /\ ( /\ FirstMark(strictIn) > 0 /\ strictIn[FirstMark(strictIn)] = "+"
             /\ ValidBody(strictIn)
             /\ \A i \in 1..Len(Split(MetadataOf(strictIn), ".")) :
                   Identifier(Split(MetadataOf(strictIn), ".")[i])
             /\ Index(MetadataOf(strictIn), "-") # 0 )
            => /\ strict.err = "nil"
               /\ strict.sv.pre = <<>>
               /\ strict.sv.metadata = MetadataOf(strictIn)

\* s is not empty and one of its dot-separated identifiers is.
HasEmptyIdentifier(s) ==
    s # <<>> /\ \E i \in 1..Len(Split(s, ".")) : Split(s, ".")[i] = <<>>

\* C25 (as stated): NewVersion and StrictNewVersion reject a text whose
\* prerelease or metadata has an empty identifier.
C25_NoEmptyIdentifier ==
    /\ (/\ Called(strict)
        /\ \/ HasEmptyIdentifier(PrereleaseOf(strictIn))
           \/ HasEmptyIdentifier(MetadataOf(strictIn))) => strict.err # "nil"
    /\ (/\ Called(lenient)
        /\ \/ HasEmptyIdentifier(PrereleaseOf(text))
           \/ HasEmptyIdentifier(MetadataOf(text))) => lenient.err # "nil"

\* C26 (as stated): the constructed version and every version returned by
\* IncPart, SetPrerelease and SetMetadata has at least one part, and its
\* Major() is its first part.
C26_AtLeastOnePart ==
    /\ Len(heap[recv.parts]) >= 1
    /\ Major(heap, recv) = Part(Deref(heap, recv), 1)
    /\ call.n > 0 =>
          /\ Len(heap[ret.parts]) >= 1
          /\ Major(heap, ret) = Part(Deref(heap, ret), 1)

IncOps == {"IncPart", "IncMajor", "IncMinor", "IncPatch", "IncLast"}

\* C29 (as stated): the version that IncPart(i) returns compares strictly
\* greater than the version it was called on.
C29_IncPartMovesForward ==
    (call.n > 0 /\ call.op \in IncOps) =>
        Compare(Deref(heap, ret), call.before) = 1

\* C30 (as stated): after a call of IncPart, SetPrerelease or SetMetadata
\* that returned no error, NewVersion accepts the Original() of the result
\* and gives its parts, its prerelease and its metadata.
C30_OriginalStaysParseable ==
    (call.n > 0 /\ call.err = "nil") =>
        LET r == Deref(heap, ret)
        IN  /\ NewVersion(Original(r)).err = "nil"
            /\ NewVersion(Original(r)).sv.parts = r.parts
            /\ NewVersion(Original(r)).sv.pre = r.pre
            /\ NewVersion(Original(r)).sv.metadata = r.metadata

=============================================================================
